---- MODULE Spec2Model ----
(***************************************************************************)
(* A model of the generic DAG engine (GenericDAG[T], src/typed_dag.go      *)
(* lines 406-1401, and its JSON reader, src/generic_marshal.go).           *)
(*                                                                         *)
(* The graph is a record with one field per field of the Go struct.  Go    *)
(* maps are functions whose DOMAIN is the set of keys that have an entry,  *)
(* so "no entry" and "an entry holding the empty set" are different        *)
(* states, as they are in the program.  Every public method is one action: *)
(* a mutation holds muDAG exclusively for its whole body, and a query      *)
(* holds it shared while the adjacency maps are frozen, so the body of     *)
(* each method is one atomic step of the graph.                            *)
(***************************************************************************)
EXTENDS Integers, Sequences, FiniteSets, TLC

VARIABLES d, last

vars == <<d, last>>

(***************************************************************************)
(* Bounds of the model.                                                    *)
(***************************************************************************)
NumIds == 3          \* non-empty ids a caller may pass
NumPayloads == 3     \* payload values 1..NumPayloads
MaxOrder == 3        \* cap on the number of live vertices
HashMod == 2         \* the custom hash policy maps payload p to p % HashMod
MaxJsonVs == 2       \* longest "vs" list of a parsed document
MaxJsonEs == 1       \* longest "es" list of a parsed document
DagOrder == 4        \* most vertices of a graph drawn as the input of a whole-graph operation
ReadVs == 2          \* longest "vs" list of a document drawn as the input of a reader
ReadEs == 2          \* longest "es" list of a document drawn as the input of a reader

IdNames == <<"a", "b", "c", "e", "f", "g">>

NonEmptyIds == {IdNames[i] : i \in 1..NumIds}

\* every id a caller may pass: the empty string, and ids that may be live
IdPool == {""} \cup NonEmptyIds

Payloads == 1..NumPayloads

\* the zero value of the payload type T: nil for a pointer or interface type
NilPayload == 0

Policies == {"default", "custom"}

\* The (id, payload) pairs a caller passes to AddVertexByID.  Ids are opaque
\* and payloads matter only through their key, so every payload v is offered
\* under an id of its own, IdNames[v], and under the ids "" and IdNames[1]:
\* ids and keys then clash independently of each other.
VertexInputs ==
    {iv \in IdPool \X Payloads :
        \/ iv[1] \in {"", IdNames[1]}
        \/ iv[2] <= NumIds /\ iv[1] = IdNames[iv[2]]}

EmptyMap == [x \in {} |-> {}]

(***************************************************************************)
(* Go map primitives.                                                      *)
(***************************************************************************)
\* m[k] of a map of sets: the zero value (a nil set, read as empty) when absent
MapGet(m, k) == IF k \in DOMAIN m THEN m[k] ELSE {}

\* m[k] = v
MapPut(m, k, v) == [x \in (DOMAIN m) \cup {k} |-> IF x = k THEN v ELSE m[x]]

\* delete(m, k)
MapDelete(m, k) == [x \in (DOMAIN m) \ {k} |-> m[x]]

\* faulty variant: the invalidation deletes nothing
MapDeleteAll_Skip(m, ks) == m

\* delete(m, k) for every k of ks
MapDeleteAll(m, ks) == [x \in (DOMAIN m) \ ks |-> m[x]]

\* delete(m[k], e): the entry of k stays, possibly empty; no entry is created
SetDelete(m, k, e) == [x \in DOMAIN m |-> IF x = k THEN m[x] \ {e} ELSE m[x]]

(***************************************************************************)
(* Hash policy.                                                            *)
(***************************************************************************)
\* Options.VertexHashFunc: the payload itself by default, else the caller's function
VertexHashFunc(options, v) == IF options = "default" THEN v ELSE v % HashMod

hashVertex(g, v) == VertexHashFunc(g.options, v)

NewGenericDAG(options) ==
    [vertices         |-> EmptyMap,
     vertexValues     |-> EmptyMap,
     inboundEdge      |-> EmptyMap,
     outboundEdge     |-> EmptyMap,
     ancestorsCache   |-> EmptyMap,
     descendantsCache |-> EmptyMap,
     options          |-> options]

Ret(g, err) == [g |-> g, err |-> err]

(***************************************************************************)
(* Vertices.                                                               *)
(***************************************************************************)
\* faulty variant: the key index is written before the id is checked
addVertexByID_KeyWrittenFirst(g, id, v) ==
    LET vHash == hashVertex(g, v) IN
    IF vHash \in DOMAIN g.vertices THEN Ret(g, "VertexDuplicateError")
    ELSE IF id \in DOMAIN g.vertexValues
         THEN Ret([g EXCEPT !.vertices = MapPut(@, vHash, id)], "IDDuplicateError")
    ELSE Ret([g EXCEPT !.vertices = MapPut(@, vHash, id),
                       !.vertexValues = MapPut(@, id, v)], "nil")

\* faulty variant: the id is checked before the key
addVertexByID_IdFirst(g, id, v) ==
    LET vHash == hashVertex(g, v) IN
    IF id \in DOMAIN g.vertexValues THEN Ret(g, "IDDuplicateError")
    ELSE IF vHash \in DOMAIN g.vertices THEN Ret(g, "VertexDuplicateError")
    ELSE Ret([g EXCEPT !.vertices = MapPut(@, vHash, id),
                       !.vertexValues = MapPut(@, id, v)], "nil")

\* faulty variant: the key is not checked
addVertexByID_NoKeyCheck(g, id, v) ==
    LET vHash == hashVertex(g, v) IN
    IF id \in DOMAIN g.vertexValues THEN Ret(g, "IDDuplicateError")
    ELSE Ret([g EXCEPT !.vertices = MapPut(@, vHash, id),
                       !.vertexValues = MapPut(@, id, v)], "nil")

addVertexByID(g, id, v) ==
    LET vHash == hashVertex(g, v) IN
    IF vHash \in DOMAIN g.vertices THEN Ret(g, "VertexDuplicateError")
    ELSE IF id \in DOMAIN g.vertexValues THEN Ret(g, "IDDuplicateError")
    ELSE Ret([g EXCEPT !.vertices = MapPut(@, vHash, id),
                       !.vertexValues = MapPut(@, id, v)], "nil")

\* faulty variant: the lookup comes before the test for the empty id
saneID_UnknownFirst(g, id) ==
    IF id \notin DOMAIN g.vertexValues THEN "IDUnknownError"
    ELSE IF id = "" THEN "IDEmptyError"
    ELSE "nil"

saneID(g, id) ==
    IF id = "" THEN "IDEmptyError"
    ELSE IF id \notin DOMAIN g.vertexValues THEN "IDUnknownError"
    ELSE "nil"

(***************************************************************************)
(* Reachability cache: lazy fill.                                          *)
(***************************************************************************)
\* The set a lookup of key k yields once the cache has been filled for k:
\* the entry when present, else the merge over the children (parents) of k.
\* The per-key lock and the second cache check change nothing when the
\* method runs alone, which is the case under the exclusive graph lock and
\* under a frozen graph gives the same entries whatever the interleaving.
\* faulty variant: an entry holds the direct relatives only
fillRec_DirectOnly(edges, cache, ks) ==
    [x \in (DOMAIN cache) \cup ks |->
        IF x \in DOMAIN cache THEN cache[x] ELSE MapGet(edges, x)]

RECURSIVE fillRec(_, _, _)
fillRec(edges, cache, ks) ==
    \* the cache after getDescendants/getAncestors was called for every key of ks
    IF ks = {} THEN cache
    ELSE LET k == CHOOSE x \in ks : TRUE
             c1 == IF k \in DOMAIN cache THEN cache
                   ELSE LET relatives == MapGet(edges, k)
                            c0 == fillRec(edges, cache, relatives)
                            collected == UNION {c0[r] \cup {r} : r \in relatives}
                        IN  MapPut(c0, k, collected)
         IN  fillRec(edges, c1, ks \ {k})

\* getDescendants(vHash): the graph with the descendants cache filled for
\* vHash and for every key the recursion reached without finding an entry
getDescendants(g, vHash) ==
    [g EXCEPT !.descendantsCache = fillRec(g.outboundEdge, @, {vHash})]

getAncestors(g, vHash) ==
    [g EXCEPT !.ancestorsCache = fillRec(g.inboundEdge, @, {vHash})]

(***************************************************************************)
(* Edges.                                                                  *)
(***************************************************************************)
isEdge(g, srcHash, dstHash) ==
    /\ srcHash \in DOMAIN g.outboundEdge
    /\ dstHash \in g.outboundEdge[srcHash]
    /\ dstHash \in DOMAIN g.inboundEdge
    /\ srcHash \in g.inboundEdge[dstHash]

\* the BFS loop of wouldCreateLoop; the order in which a map's keys are
\* appended to the queue does not change the answer, so one order is taken
SetToSeq(S) ==
    LET RECURSIVE toSeq(_)
        toSeq(T) == IF T = {} THEN <<>>
                    ELSE LET x == CHOOSE y \in T : TRUE IN <<x>> \o toSeq(T \ {x})
    IN  toSeq(S)

RECURSIVE loopBFS(_, _, _, _)
loopBFS(g, srcHash, fifo, visited) ==
    IF Len(fifo) = 0 THEN FALSE
    ELSE LET top == Head(fifo)
             fresh == MapGet(g.outboundEdge, top) \ visited
         IN  IF top = srcHash THEN TRUE
             ELSE loopBFS(g, srcHash, Tail(fifo) \o SetToSeq(fresh), visited \cup fresh)

\* faulty variant: only the children of dst are compared with src
wouldCreateLoop_ChildrenOnly(g, srcHash, dstHash) ==
    srcHash \in MapGet(g.outboundEdge, dstHash)

wouldCreateLoop(g, srcHash, dstHash) ==
    LET children == MapGet(g.outboundEdge, dstHash)
    IN  loopBFS(g, srcHash, SetToSeq(children), children)

\* faulty variant: of the descendants entries only the one of src is deleted,
\* those of the ancestors of src stay
addEdge_SrcEntryOnly(g, srcID, dstID) ==
    IF saneID(g, srcID) # "nil" THEN Ret(g, saneID(g, srcID))
    ELSE IF saneID(g, dstID) # "nil" THEN Ret(g, saneID(g, dstID))
    ELSE IF srcID = dstID THEN Ret(g, "SrcDstEqualError")
    ELSE
      LET srcHash == hashVertex(g, g.vertexValues[srcID])
          dstHash == hashVertex(g, g.vertexValues[dstID])
      IN
      IF isEdge(g, srcHash, dstHash) THEN Ret(g, "EdgeDuplicateError")
      ELSE IF wouldCreateLoop(g, srcHash, dstHash) THEN Ret(g, "EdgeLoopError")
      ELSE
        LET g1 == getAncestors(getDescendants(g, dstHash), srcHash)
            descendants == g1.descendantsCache[dstHash]
        IN  Ret([g1 EXCEPT
                   !.outboundEdge = MapPut(@, srcHash, MapGet(@, srcHash) \cup {dstHash}),
                   !.inboundEdge = MapPut(@, dstHash, MapGet(@, dstHash) \cup {srcHash}),
                   !.ancestorsCache = MapDeleteAll(@, descendants \cup {dstHash}),
                   !.descendantsCache = MapDeleteAll(@, {srcHash})],
                "nil")

addEdge(g, srcID, dstID) ==
    IF saneID(g, srcID) # "nil" THEN Ret(g, saneID(g, srcID))
    ELSE IF saneID(g, dstID) # "nil" THEN Ret(g, saneID(g, dstID))
    ELSE IF srcID = dstID THEN Ret(g, "SrcDstEqualError")
    ELSE
      LET srcHash == hashVertex(g, g.vertexValues[srcID])
          dstHash == hashVertex(g, g.vertexValues[dstID])
      IN
      IF isEdge(g, srcHash, dstHash) THEN Ret(g, "EdgeDuplicateError")
      ELSE IF wouldCreateLoop(g, srcHash, dstHash) THEN Ret(g, "EdgeLoopError")
      ELSE
        LET g1 == getAncestors(getDescendants(g, dstHash), srcHash)
            descendants == g1.descendantsCache[dstHash]
            ancestors == g1.ancestorsCache[srcHash]
        IN  Ret([g1 EXCEPT
                   !.outboundEdge = MapPut(@, srcHash, MapGet(@, srcHash) \cup {dstHash}),
                   !.inboundEdge = MapPut(@, dstHash, MapGet(@, dstHash) \cup {srcHash}),
                   !.ancestorsCache = MapDeleteAll(@, descendants \cup {dstHash}),
                   !.descendantsCache = MapDeleteAll(@, ancestors \cup {srcHash})],
                "nil")

\* faulty variant: only the entries of the two endpoints named in the code's
\* last delete statements go, those of their relatives stay
deleteEdge_EndpointsOnly(g, srcID, dstID) ==
    IF saneID(g, srcID) # "nil" THEN Ret(g, saneID(g, srcID))
    ELSE IF saneID(g, dstID) # "nil" THEN Ret(g, saneID(g, dstID))
    ELSE IF srcID = dstID THEN Ret(g, "SrcDstEqualError")
    ELSE
      LET srcHash == hashVertex(g, g.vertexValues[srcID])
          dstHash == hashVertex(g, g.vertexValues[dstID])
      IN
      IF ~isEdge(g, srcHash, dstHash) THEN Ret(g, "EdgeUnknownError")
      ELSE
        LET g1 == getAncestors(getDescendants(g, srcHash), dstHash)
        IN  Ret([g1 EXCEPT
                   !.outboundEdge = SetDelete(@, srcHash, dstHash),
                   !.inboundEdge = SetDelete(@, dstHash, srcHash),
                   !.ancestorsCache = MapDeleteAll(@, {srcHash}),
                   !.descendantsCache = MapDeleteAll(@, {dstHash})],
                "nil")

deleteEdge(g, srcID, dstID) ==
    IF saneID(g, srcID) # "nil" THEN Ret(g, saneID(g, srcID))
    ELSE IF saneID(g, dstID) # "nil" THEN Ret(g, saneID(g, dstID))
    ELSE IF srcID = dstID THEN Ret(g, "SrcDstEqualError")
    ELSE
      LET srcHash == hashVertex(g, g.vertexValues[srcID])
          dstHash == hashVertex(g, g.vertexValues[dstID])
      IN
      IF ~isEdge(g, srcHash, dstHash) THEN Ret(g, "EdgeUnknownError")
      ELSE
        LET g1 == getAncestors(getDescendants(g, srcHash), dstHash)
            descendants == g1.descendantsCache[srcHash]
            ancestors == g1.ancestorsCache[dstHash]
        IN  Ret([g1 EXCEPT
                   !.outboundEdge = SetDelete(@, srcHash, dstHash),
                   !.inboundEdge = SetDelete(@, dstHash, srcHash),
                   !.ancestorsCache = MapDeleteAll(@, descendants \cup {srcHash}),
                   !.descendantsCache = MapDeleteAll(@, ancestors \cup {dstHash})],
                "nil")

\* faulty variant: the sets of the parents and children keep the deleted key
deleteVertex_OwnEntriesOnly(g, id) ==
    IF saneID(g, id) # "nil" THEN Ret(g, saneID(g, id))
    ELSE
      LET vHash == hashVertex(g, g.vertexValues[id])
          g1 == getAncestors(getDescendants(g, vHash), vHash)
          descendants == g1.descendantsCache[vHash]
          ancestors == g1.ancestorsCache[vHash]
      IN  Ret([g1 EXCEPT
                 !.outboundEdge = MapDelete(@, vHash),
                 !.inboundEdge = MapDelete(@, vHash),
                 !.ancestorsCache = MapDeleteAll(@, descendants \cup {vHash}),
                 !.descendantsCache = MapDeleteAll(@, ancestors \cup {vHash}),
                 !.vertices = MapDelete(@, vHash),
                 !.vertexValues = MapDelete(@, id)],
              "nil")

deleteVertex(g, id) ==
    IF saneID(g, id) # "nil" THEN Ret(g, saneID(g, id))
    ELSE
      LET vHash == hashVertex(g, g.vertexValues[id])
          g1 == getAncestors(getDescendants(g, vHash), vHash)
          descendants == g1.descendantsCache[vHash]
          ancestors == g1.ancestorsCache[vHash]
          parents == MapGet(g.inboundEdge, vHash)
          children == MapGet(g.outboundEdge, vHash)
          \* delete v in outbound edges of parents, then the entry of v itself
          outbound == MapDelete([x \in DOMAIN g.outboundEdge |->
                                   IF x \in parents THEN g.outboundEdge[x] \ {vHash}
                                   ELSE g.outboundEdge[x]], vHash)
          \* delete v in inbound edges of children, then the entry of v itself
          inbound == MapDelete([x \in DOMAIN g.inboundEdge |->
                                  IF x \in children THEN g.inboundEdge[x] \ {vHash}
                                  ELSE g.inboundEdge[x]], vHash)
      IN  Ret([g1 EXCEPT
                 !.outboundEdge = outbound,
                 !.inboundEdge = inbound,
                 !.ancestorsCache = MapDeleteAll(@, descendants \cup {vHash}),
                 !.descendantsCache = MapDeleteAll(@, ancestors \cup {vHash}),
                 !.vertices = MapDelete(@, vHash),
                 !.vertexValues = MapDelete(@, id)],
              "nil")

flushCaches(g) == [g EXCEPT !.ancestorsCache = EmptyMap, !.descendantsCache = EmptyMap]

(***************************************************************************)
(* Queries.                                                                *)
(***************************************************************************)
getRoots(g) == {k \in DOMAIN g.vertices : MapGet(g.inboundEdge, k) = {}}

getLeaves(g) == {k \in DOMAIN g.vertices : MapGet(g.outboundEdge, k) = {}}

getOrder(g) == Cardinality(DOMAIN g.vertices)

\* the loop of getSize: count += len(value) for every entry of outboundEdge
RECURSIVE sumLen(_, _)
sumLen(m, ks) ==
    IF ks = {} THEN 0
    ELSE LET k == CHOOSE x \in ks : TRUE
         IN  Cardinality(m[k]) + sumLen(m, ks \ {k})

getSize(g) == sumLen(g.outboundEdge, DOMAIN g.outboundEdge)

\* the map id -> value a query returns for a set of keys
AsVertices(g, keys) ==
    [id \in {g.vertices[k] : k \in keys} |-> g.vertexValues[id]]

\* GetDescendants(id): the graph (its cache filled) and the returned map
GetDescendantsOf(g, id) ==
    IF saneID(g, id) # "nil" THEN [g |-> g, err |-> saneID(g, id), res |-> EmptyMap]
    ELSE LET vHash == hashVertex(g, g.vertexValues[id])
             g1 == getDescendants(g, vHash)
         IN  [g |-> g1, err |-> "nil", res |-> AsVertices(g1, g1.descendantsCache[vHash])]

GetAncestorsOf(g, id) ==
    IF saneID(g, id) # "nil" THEN [g |-> g, err |-> saneID(g, id), res |-> EmptyMap]
    ELSE LET vHash == hashVertex(g, g.vertexValues[id])
             g1 == getAncestors(g, vHash)
         IN  [g |-> g1, err |-> "nil", res |-> AsVertices(g1, g1.ancestorsCache[vHash])]

(***************************************************************************)
(* Transitive reduction.                                                   *)
(***************************************************************************)
\* faulty variant: the inbound map keeps the removed edges
reduceTransitively_OutboundOnly(g) ==
    LET g1 == [g EXCEPT !.descendantsCache = fillRec(g.outboundEdge, @, getRoots(g))]
        descendantsOfChildrenOfV(v) ==
            UNION {MapGet(g1.descendantsCache, c) : c \in MapGet(g1.outboundEdge, v)}
        removed(v) == MapGet(g1.outboundEdge, v) \cap descendantsOfChildrenOfV(v)
        live == DOMAIN g1.vertices
        graphChanged == \E v \in live : removed(v) # {}
        g2 == [g1 EXCEPT
                 !.outboundEdge = [x \in DOMAIN @ |->
                                     IF x \in live THEN @[x] \ removed(x) ELSE @[x]]]
    IN  IF graphChanged THEN flushCaches(g2) ELSE g2

\* faulty variant: a child counts among the descendants of the children
reduceTransitively_ChildrenToo(g) ==
    LET g1 == [g EXCEPT !.descendantsCache = fillRec(g.outboundEdge, @, getRoots(g))]
        descendantsOfChildrenOfV(v) ==
            UNION {MapGet(g1.descendantsCache, c) \cup {c} : c \in MapGet(g1.outboundEdge, v)}
        removed(v) == MapGet(g1.outboundEdge, v) \cap descendantsOfChildrenOfV(v)
        live == DOMAIN g1.vertices
        graphChanged == \E v \in live : removed(v) # {}
        g2 == [g1 EXCEPT
                 !.outboundEdge = [x \in DOMAIN @ |->
                                     IF x \in live THEN @[x] \ removed(x) ELSE @[x]],
                 !.inboundEdge = [x \in DOMAIN @ |->
                                     @[x] \ {v \in live : x \in removed(v)}]]
    IN  IF graphChanged THEN flushCaches(g2) ELSE g2

\* faulty variant: only the children of the children are collected
reduceTransitively_GrandchildrenOnly(g) ==
    LET g1 == [g EXCEPT !.descendantsCache = fillRec(g.outboundEdge, @, getRoots(g))]
        descendantsOfChildrenOfV(v) ==
            UNION {MapGet(g1.outboundEdge, c) : c \in MapGet(g1.outboundEdge, v)}
        removed(v) == MapGet(g1.outboundEdge, v) \cap descendantsOfChildrenOfV(v)
        live == DOMAIN g1.vertices
        graphChanged == \E v \in live : removed(v) # {}
        g2 == [g1 EXCEPT
                 !.outboundEdge = [x \in DOMAIN @ |->
                                     IF x \in live THEN @[x] \ removed(x) ELSE @[x]],
                 !.inboundEdge = [x \in DOMAIN @ |->
                                     @[x] \ {v \in live : x \in removed(v)}]]
    IN  IF graphChanged THEN flushCaches(g2) ELSE g2

\* faulty variant: the loop stops after the first vertex that loses an edge
reduceTransitively_OneVertexPerCall(g) ==
    LET g1 == [g EXCEPT !.descendantsCache = fillRec(g.outboundEdge, @, getRoots(g))]
        descendantsOfChildrenOfV(v) ==
            UNION {MapGet(g1.descendantsCache, c) : c \in MapGet(g1.outboundEdge, v)}
        redundant(v) == MapGet(g1.outboundEdge, v) \cap descendantsOfChildrenOfV(v)
        live == DOMAIN g1.vertices
        graphChanged == \E v \in live : redundant(v) # {}
        first == CHOOSE v \in live : redundant(v) # {}
        removed(v) == IF graphChanged /\ v = first THEN redundant(v) ELSE {}
        g2 == [g1 EXCEPT
                 !.outboundEdge = [x \in DOMAIN @ |->
                                     IF x \in live THEN @[x] \ removed(x) ELSE @[x]],
                 !.inboundEdge = [x \in DOMAIN @ |->
                                     @[x] \ {v \in live : x \in removed(v)}]]
    IN  IF graphChanged THEN flushCaches(g2) ELSE g2

reduceTransitively(g) ==
    LET \* populate the descendants cache for all roots
        g1 == [g EXCEPT !.descendantsCache = fillRec(g.outboundEdge, @, getRoots(g))]
        \* descendants of the children of v, read from the cache map itself
        descendantsOfChildrenOfV(v) ==
            UNION {MapGet(g1.descendantsCache, c) : c \in MapGet(g1.outboundEdge, v)}
        removed(v) == MapGet(g1.outboundEdge, v) \cap descendantsOfChildrenOfV(v)
        live == DOMAIN g1.vertices
        graphChanged == \E v \in live : removed(v) # {}
        g2 == [g1 EXCEPT
                 !.outboundEdge = [x \in DOMAIN @ |->
                                     IF x \in live THEN @[x] \ removed(x) ELSE @[x]],
                 !.inboundEdge = [x \in DOMAIN @ |->
                                     @[x] \ {v \in live : x \in removed(v)}]]
    IN  IF graphChanged THEN flushCaches(g2) ELSE g2

(***************************************************************************)
(* Reading the persisted form {vs: [{i, v}], es: [{s, d}]}.                *)
(***************************************************************************)
RECURSIVE addVertices(_, _)
addVertices(r, vs) ==
    \* the loop over dag.Vertices: stops at the first error
    IF r.err # "nil" \/ vs = <<>> THEN r
    ELSE addVertices(addVertexByID(r.g, Head(vs).i, Head(vs).v), Tail(vs))

\* faulty variant: an edge that is refused is skipped
RECURSIVE addEdges_SkipRefused(_, _)
addEdges_SkipRefused(r, es) ==
    IF r.err # "nil" \/ es = <<>> THEN r
    ELSE LET n == addEdge(r.g, Head(es).s, Head(es).d)
         IN  addEdges_SkipRefused(IF n.err = "nil" THEN n ELSE r, Tail(es))

RECURSIVE addEdges(_, _)
addEdges(r, es) ==
    \* the loop over dag.Edges: stops at the first error
    IF r.err # "nil" \/ es = <<>> THEN r
    ELSE addEdges(addEdge(r.g, Head(es).s, Head(es).d), Tail(es))

UnmarshalGenericJSONOf(doc, options) ==
    addEdges(addVertices(Ret(NewGenericDAG(options), "nil"), doc.vs), doc.es)

\* dag.addEdgesBatch of the untyped graph
addEdgesBatch(r, es) == addEdges(r, es)

\* the typed reader: the batch loop over the vertices, then addEdgesBatch
RECURSIVE batchVertices(_, _)
batchVertices(r, vs) ==
    IF r.err # "nil" \/ vs = <<>> THEN r
    ELSE LET id == Head(vs).i
             value == Head(vs).v
             vHash == hashVertex(r.g, value)
         IN  IF vHash \in DOMAIN r.g.vertices THEN Ret(r.g, "VertexDuplicateError")
             ELSE IF id \in DOMAIN r.g.vertexValues THEN Ret(r.g, "IDDuplicateError")
             ELSE batchVertices(Ret([r.g EXCEPT !.vertices = MapPut(@, vHash, id),
                                                !.vertexValues = MapPut(@, id, value)],
                                    "nil"), Tail(vs))

UnmarshalJSONOf(doc, options) ==
    LET r == batchVertices(Ret(NewGenericDAG(options), "nil"), doc.vs)
    IN  IF r.err = "nil" /\ Len(doc.es) > 0 THEN addEdgesBatch(r, doc.es) ELSE r

SeqsUpTo(S, n) == UNION {[1..k -> S] : k \in 0..n}

StorableVertices == {[i |-> iv[1], v |-> iv[2]] : iv \in VertexInputs}

StorableEdges == [s : IdPool, d : IdPool]

Docs == [vs : SeqsUpTo(StorableVertices, MaxJsonVs), es : SeqsUpTo(StorableEdges, MaxJsonEs)]

NoRes == EmptyMap

Init ==
    /\ d \in {NewGenericDAG(o) : o \in Policies}
    /\ last = [op |-> "NewGenericDAG", err |-> "nil", id |-> "", res |-> NoRes]

\* the call op returned r: the graph is r.g from now on
Returns(op, r) ==
    /\ d' = r.g
    /\ last' = [op |-> op, err |-> r.err, id |-> "", res |-> NoRes]

\* AddVertex: the id is a fresh uuid (payloads here carry no id of their
\* own), one of the ids under which the model names a vertex of payload v
AddVertex(v) ==
    \E id \in {i \in NonEmptyIds \ DOMAIN d.vertexValues : <<i, v>> \in VertexInputs} :
        LET r == addVertexByID(d, id, v) IN
        /\ r.err = "nil" => Cardinality(DOMAIN d.vertexValues) < MaxOrder
        /\ Returns("AddVertex", r)

AddVertexByID(id, v) ==
    LET r == addVertexByID(d, id, v) IN
    /\ r.err = "nil" => Cardinality(DOMAIN d.vertexValues) < MaxOrder
    /\ Returns("AddVertexByID", r)

AddEdge(srcID, dstID) == Returns("AddEdge", addEdge(d, srcID, dstID))

DeleteEdge(srcID, dstID) == Returns("DeleteEdge", deleteEdge(d, srcID, dstID))

DeleteVertex(id) == Returns("DeleteVertex", deleteVertex(d, id))

GetDescendants(id) ==
    LET r == GetDescendantsOf(d, id) IN
    /\ d' = r.g
    /\ last' = [op |-> "GetDescendants", err |-> r.err, id |-> id, res |-> r.res]

GetAncestors(id) ==
    LET r == GetAncestorsOf(d, id) IN
    /\ d' = r.g
    /\ last' = [op |-> "GetAncestors", err |-> r.err, id |-> id, res |-> r.res]

ReduceTransitively == Returns("ReduceTransitively", Ret(reduceTransitively(d), "nil"))

FlushCaches == Returns("FlushCaches", Ret(flushCaches(d), "nil"))

\* The readers are constructors: the graph they return starts its life with
\* the document's content.  On an error they return no graph, and the caller
\* is left with the empty graph it had.
UnmarshalGenericJSON(doc) ==
    /\ last.op = "NewGenericDAG"
    /\ LET r == UnmarshalGenericJSONOf(doc, d.options) IN
       Returns("UnmarshalGenericJSON", IF r.err = "nil" THEN r ELSE Ret(d, r.err))

UnmarshalJSON(doc) ==
    /\ last.op = "NewGenericDAG"
    /\ LET r == UnmarshalJSONOf(doc, d.options) IN
       Returns("UnmarshalJSON", IF r.err = "nil" THEN r ELSE Ret(d, r.err))

\* the call of this step was accepted
Accepted == last'.err = "nil"

(***************************************************************************)
(* Spec: every operation of the graph.  last records the accepted calls; a *)
(* call that returns an error changes nothing the graph holds (SpecErr     *)
(* below checks it), so here it is a stuttering step.                      *)
(***************************************************************************)
Next ==
    \/ \E v \in Payloads : AddVertex(v) /\ Accepted
    \/ \E iv \in VertexInputs : AddVertexByID(iv[1], iv[2]) /\ Accepted
    \/ \E s \in IdPool, t \in IdPool : AddEdge(s, t) /\ Accepted
    \/ \E s \in IdPool, t \in IdPool : DeleteEdge(s, t) /\ Accepted
    \/ \E id \in IdPool : DeleteVertex(id) /\ Accepted
    \/ \E id \in IdPool : GetDescendants(id) /\ Accepted
    \/ \E id \in IdPool : GetAncestors(id) /\ Accepted
    \/ ReduceTransitively
    \/ FlushCaches
    \/ \E doc \in Docs : UnmarshalGenericJSON(doc) /\ Accepted
    \/ \E doc \in Docs : UnmarshalJSON(doc) /\ Accepted

Spec == Init /\ [][Next]_vars

(***************************************************************************)
(* SpecErr: the operations that write the graph, with every call recorded, *)
(* refused or not.                                                         *)
(***************************************************************************)
NextErr ==
    \/ \E v \in Payloads : AddVertex(v)
    \/ \E iv \in VertexInputs : AddVertexByID(iv[1], iv[2])
    \/ \E s \in IdPool, t \in IdPool : AddEdge(s, t)
    \/ \E s \in IdPool, t \in IdPool : DeleteEdge(s, t)
    \/ \E id \in IdPool : DeleteVertex(id)
    \/ \E doc \in Docs : UnmarshalGenericJSON(doc)
    \/ \E doc \in Docs : UnmarshalJSON(doc)
    \/ ReduceTransitively
    \/ FlushCaches

SpecErr == Init /\ [][NextErr]_vars

(***************************************************************************)
(* Writing the persisted form.  A range over a Go map yields its keys in   *)
(* an order the runtime chooses anew each time: every order is possible.   *)
(***************************************************************************)
\* the orders in which a range over a map with key set S can yield the keys
Perms(S) ==
    {p \in [1..Cardinality(S) -> S] : \A i \in DOMAIN p, j \in DOMAIN p : i # j => p[i] # p[j]}

Reverse(seq) == [i \in 1..Len(seq) |-> seq[Len(seq) + 1 - i]]

\* getRoots / getChildren as id sets (the key set of the map id -> value);
\* getChildren of an id that saneID refuses is nil
getRootIDs(g) == {g.vertices[k] : k \in getRoots(g)}

getChildrenIDs(g, id) ==
    IF saneID(g, id) # "nil" THEN {}
    ELSE {g.vertices[c] : c \in MapGet(g.outboundEdge, hashVertex(g, g.vertexValues[id]))}

\* for i := len(ids)-1 .. 0: push ids[i] unless visited
pushUnvisited(stack, ids, visited) ==
    LET notVisited(x) == x \notin visited
    IN  stack \o Reverse(SelectSeq(ids, notVisited))

\* the stack loop of MarshalJSON: every document it can end with
RECURSIVE marshalWalk(_, _, _, _, _)
marshalWalk(g, stack, visited, vs, es) ==
    IF Len(stack) = 0 THEN {[vs |-> vs, es |-> es]}
    ELSE LET id == stack[Len(stack)]
             rest == SubSeq(stack, 1, Len(stack) - 1)
             vs1 == IF id \in visited THEN vs
                    ELSE Append(vs, [i |-> id, v |-> g.vertexValues[id]])
             visited1 == visited \cup {id}
             children == getChildrenIDs(g, id)
         IN  UNION {marshalWalk(g, pushUnvisited(rest, childIDs, visited1), visited1, vs1,
                                es \o [k \in DOMAIN edgeIDs |-> [s |-> id, d |-> edgeIDs[k]]]) :
                       edgeIDs \in Perms(children), childIDs \in Perms(children)}

MarshalJSONOf(g) ==
    UNION {marshalWalk(g, Reverse(ids), {}, <<>>, <<>>) : ids \in Perms(getRootIDs(g))}

\* faulty variant: no parent is reported
getParentIDs_None(g, id) == {}

\* GetParents as an id set; nil for an id that saneID refuses
getParentIDs(g, id) ==
    IF saneID(g, id) # "nil" THEN {}
    ELSE {g.vertices[c] : c \in MapGet(g.inboundEdge, hashVertex(g, g.vertexValues[id]))}

(***************************************************************************)
(* Copying.  The walk state is the new graph, the visited map (key of the  *)
(* source -> id) and the error; every order of every range over a map is   *)
(* possible, so each operator yields the set of states it can end in.      *)
(***************************************************************************)
RECURSIVE getRelativesGraphRec(_, _, _, _)
RECURSIVE relativesLoop(_, _, _, _, _, _)

\* faulty variant of relativeStep: a relative seen before gets no edge
relativeStep_SkipVisited(g, newId, relative, st, asc) ==
    IF st.err # "nil" THEN {st}
    ELSE IF relative \in DOMAIN st.visited THEN {st}
    ELSE {IF s2.err # "nil" THEN s2
          ELSE LET relativeId == s2.visited[relative]
                   e == IF asc THEN addEdge(s2.g, relativeId, newId)
                        ELSE addEdge(s2.g, newId, relativeId)
               IN  [s2 EXCEPT !.g = e.g, !.err = e.err] :
             s2 \in getRelativesGraphRec(g, relative, st, asc)}

\* one iteration of: for relative := range relatives { ... }
relativeStep(g, newId, relative, st, asc) ==
    IF st.err # "nil" THEN {st}
    ELSE {IF s2.err # "nil" THEN s2
          ELSE LET relativeId == s2.visited[relative]
                   e == IF asc THEN addEdge(s2.g, relativeId, newId)
                        ELSE addEdge(s2.g, newId, relativeId)
               IN  [s2 EXCEPT !.g = e.g, !.err = e.err] :
             s2 \in IF relative \in DOMAIN st.visited THEN {st}
                    ELSE getRelativesGraphRec(g, relative, st, asc)}

relativesLoop(g, newId, order, k, sts, asc) ==
    IF k > Len(order) THEN sts
    ELSE relativesLoop(g, newId, order, k + 1,
                       UNION {relativeStep(g, newId, order[k], st, asc) : st \in sts}, asc)

getRelativesGraphRec(g, vHash, st, asc) ==
    LET \* a map read of an absent key yields the zero value
        newId == IF vHash \in DOMAIN g.vertices THEN g.vertices[vHash] ELSE ""
        value == IF newId \in DOMAIN g.vertexValues THEN g.vertexValues[newId] ELSE NilPayload
        r == addVertexByID(st.g, newId, value)
    IN  IF r.err # "nil" THEN {[st EXCEPT !.err = r.err]}
        ELSE LET st1 == [g |-> r.g, visited |-> MapPut(st.visited, vHash, newId), err |-> "nil"]
                 edges == IF asc THEN g.inboundEdge ELSE g.outboundEdge
             IN  IF vHash \notin DOMAIN edges THEN {st1}
                 ELSE UNION {relativesLoop(g, newId, order, 1, {st1}, asc) :
                                order \in Perms(edges[vHash])}

\* the loop of Copy over the roots; it returns at the first error
RECURSIVE copyRoots(_, _, _, _)
copyRoots(g, order, k, sts) ==
    IF k > Len(order) THEN sts
    ELSE copyRoots(g, order, k + 1,
                   UNION {IF st.err # "nil" THEN {st}
                          ELSE getRelativesGraphRec(g, hashVertex(g, g.vertexValues[order[k]]), st, FALSE) :
                            st \in sts})

\* Copy: the states it can end in; newDAG comes from NewGenericDAG, with
\* the default options
CopyOf(g) ==
    LET st0 == [g |-> NewGenericDAG("default"), visited |-> EmptyMap, err |-> "nil"]
    IN  UNION {copyRoots(g, order, 1, {st0}) : order \in Perms(getRootIDs(g))}

\* faulty variant of getRelativesGraph: the walk always follows outbound edges
getRelativesGraph_AlwaysDown(g, id, asc) ==
    IF id = "" THEN {[g |-> NoRes, id |-> "", err |-> "IDEmptyError"]}
    ELSE IF id \notin DOMAIN g.vertexValues THEN {[g |-> NoRes, id |-> "", err |-> "IDUnknownError"]}
    ELSE LET vHash == hashVertex(g, g.vertexValues[id])
             st0 == [g |-> NewGenericDAG("default"), visited |-> EmptyMap, err |-> "nil"]
         IN  {[g |-> st.g, id |-> IF st.err = "nil" THEN g.vertices[vHash] ELSE "", err |-> st.err] :
                 st \in getRelativesGraphRec(g, vHash, st0, FALSE)}

\* getRelativesGraph: the results (graph, id of the seed, error) it can return
getRelativesGraph(g, id, asc) ==
    IF id = "" THEN {[g |-> NoRes, id |-> "", err |-> "IDEmptyError"]}
    ELSE IF id \notin DOMAIN g.vertexValues THEN {[g |-> NoRes, id |-> "", err |-> "IDUnknownError"]}
    ELSE LET vHash == hashVertex(g, g.vertexValues[id])
             st0 == [g |-> NewGenericDAG("default"), visited |-> EmptyMap, err |-> "nil"]
         IN  {[g |-> st.g, id |-> IF st.err = "nil" THEN g.vertices[vHash] ELSE "", err |-> st.err] :
                 st \in getRelativesGraphRec(g, vHash, st0, asc)}

(***************************************************************************)
(* The ordered queries: the walker's goroutine run to its end while the    *)
(* caller appends every id it receives.  Each operator yields the set of   *)
(* sequences the iteration orders allow.                                   *)
(***************************************************************************)
\* faulty variant of walkLoop: relatives are enqueued whether seen or not
RECURSIVE walkLoop_NoVisited(_, _, _, _, _)
walkLoop_NoVisited(g, edges, fifo, visited, out) ==
    IF fifo = <<>> THEN {out}
    ELSE LET top == Head(fifo)
             new == MapGet(edges, top)
         IN  UNION {walkLoop_NoVisited(g, edges, Tail(fifo) \o order, visited \cup new,
                                       Append(out, g.vertices[top])) :
                       order \in Perms(new)}

\* the for { ... } of walkDescendants / walkAncestors, never signalled
RECURSIVE walkLoop(_, _, _, _, _)
walkLoop(g, edges, fifo, visited, out) ==
    IF fifo = <<>> THEN {out}
    ELSE LET top == Head(fifo)
             new == MapGet(edges, top) \ visited
         IN  UNION {walkLoop(g, edges, Tail(fifo) \o order, visited \cup new,
                             Append(out, g.vertices[top])) :
                       order \in Perms(new)}

walkRelatives(g, vHash, asc) ==
    LET edges == IF asc THEN g.inboundEdge ELSE g.outboundEdge
        first == MapGet(edges, vHash)
    IN  UNION {walkLoop(g, edges, order, first, <<>>) : order \in Perms(first)}

\* GetOrderedDescendants (asc = FALSE) / GetOrderedAncestors (asc = TRUE)
getOrderedRelatives(g, id, asc) ==
    IF saneID(g, id) # "nil" THEN {[err |-> saneID(g, id), res |-> <<>>]}
    ELSE {[err |-> "nil", res |-> s] :
             s \in walkRelatives(g, hashVertex(g, g.vertexValues[id]), asc)}

(***************************************************************************)
(* The walks of the untyped graph (DAG.DFSWalk, DAG.BFSWalk).  Its ids are *)
(* sorted with sort.Strings; "" sorts first and the other ids of the model *)
(* sort as they stand in IdNames.                                          *)
(***************************************************************************)
IdRank(id) == IF id = "" THEN 0 ELSE CHOOSE i \in DOMAIN IdNames : IdNames[i] = id

\* faulty variant of vertexIDs: sorted the wrong way round
vertexIDs_Descending(ids) ==
    CHOOSE s \in Perms(ids) : \A i \in DOMAIN s, j \in DOMAIN s : i < j => IdRank(s[i]) > IdRank(s[j])

\* vertexIDs: the keys of the map, sorted
vertexIDs(ids) ==
    CHOOSE s \in Perms(ids) : \A i \in DOMAIN s, j \in DOMAIN s : i < j => IdRank(s[i]) < IdRank(s[j])

\* faulty variant of reversedVertexIDs: the slice is left as sorted
reversedVertexIDs_NotReversed(ids) == vertexIDs(ids)

reversedVertexIDs(ids) == Reverse(vertexIDs(ids))

\* DAG.getRoots / DAG.getChildren, as sets of ids
dagGetRoots(g) == {g.vertices[k] : k \in {x \in DOMAIN g.vertices : MapGet(g.inboundEdge, x) = {}}}

dagGetChildren(g, id) ==
    IF id = "" \/ id \notin DOMAIN g.vertexValues THEN {}
    ELSE {g.vertices[c] : c \in MapGet(g.outboundEdge, hashVertex(g, g.vertexValues[id]))}

\* the loop of DFSWalk: the stack grows at its end; visits is what the
\* visitor was called with
RECURSIVE dfsLoop(_, _, _, _)
dfsLoop(g, stack, visited, visits) ==
    IF stack = <<>> THEN visits
    ELSE LET id == stack[Len(stack)]
         IN  dfsLoop(g, SubSeq(stack, 1, Len(stack) - 1) \o reversedVertexIDs(dagGetChildren(g, id)),
                     visited \cup {id},
                     IF id \in visited THEN visits ELSE Append(visits, id))

DFSWalkOf(g) == dfsLoop(g, reversedVertexIDs(dagGetRoots(g)), {}, <<>>)

\* the loop of BFSWalk
RECURSIVE bfsLoop(_, _, _, _)
bfsLoop(g, queue, visited, visits) ==
    IF queue = <<>> THEN visits
    ELSE LET id == Head(queue)
         IN  bfsLoop(g, Tail(queue) \o vertexIDs(dagGetChildren(g, id)),
                     visited \cup {id},
                     IF id \in visited THEN visits ELSE Append(visits, id))

BFSWalkOf(g) == bfsLoop(g, vertexIDs(dagGetRoots(g)), {}, <<>>)

(***************************************************************************)
(* DescendantsFlow of the untyped graph: a fork-join over the cone of the  *)
(* start vertex.  A flow result is [id, result, error]; a flow state holds *)
(* for every vertex of the cone its join counter (pending), the results    *)
(* received so far (inbox), its stage (st), the parent results its         *)
(* callback was called with (args) and what the callback returned (out),   *)
(* and the list collected from the leaves (results).                       *)
(***************************************************************************)
dagGetParents(g, id) ==
    IF id = "" \/ id \notin DOMAIN g.vertexValues THEN {}
    ELSE {g.vertices[p] : p \in MapGet(g.inboundEdge, hashVertex(g, g.vertexValues[id]))}

\* the start vertex and its descendants
RECURSIVE flowCone(_, _)
flowCone(g, ids) ==
    LET more == ids \cup UNION {dagGetChildren(g, id) : id \in ids}
    IN  IF more = ids THEN ids ELSE flowCone(g, more)

RECURSIVE flowSum(_)
flowSum(results) ==
    IF results = <<>> THEN 0
    ELSE (IF Head(results).error THEN 0 ELSE Head(results).result) + flowSum(Tail(results))

\* faulty variant of flowCallback: the vertex adds nothing of its own
flowCallback_SumOnly(id, parentResults, failing) ==
    IF id \in failing THEN [id |-> id, result |-> 0, error |-> TRUE]
    ELSE [id |-> id, result |-> flowSum(parentResults), error |-> FALSE]

\* the callback of the model: sum(parent_results) + 1, or an error at the
\* vertices of failing; wrapped into the vertex's flow result
flowCallback(id, parentResults, failing) ==
    IF id \in failing THEN [id |-> id, result |-> 0, error |-> TRUE]
    ELSE [id |-> id, result |-> flowSum(parentResults) + 1, error |-> FALSE]

\* faulty variant of flowStart: the counters count every parent, also those
\* outside the cone, whose callbacks are never run
flowStart_AllParents(g, startID, inputs, failing) ==
    LET cone == flowCone(g, {startID})
    IN  [start |-> startID, inputs |-> inputs, failing |-> failing, cone |-> cone,
         pending |-> [v \in cone |-> IF v = startID THEN 0
                                     ELSE Cardinality(dagGetParents(g, v))],
         inbox   |-> [v \in cone |-> IF v = startID THEN inputs ELSE <<>>],
         st      |-> [v \in cone |-> "waiting"],
         args    |-> [v \in cone |-> <<>>],
         out     |-> [v \in cone |-> NoRes],
         results |-> <<>>]

\* the state after the set-up: counters at the number of in-cone parents,
\* the seed's inbox holding seed_inputs
flowStart(g, startID, inputs, failing) ==
    LET cone == flowCone(g, {startID})
    IN  [start |-> startID, inputs |-> inputs, failing |-> failing, cone |-> cone,
         pending |-> [v \in cone |-> IF v = startID THEN 0
                                     ELSE Cardinality(dagGetParents(g, v) \cap cone)],
         inbox   |-> [v \in cone |-> IF v = startID THEN inputs ELSE <<>>],
         st      |-> [v \in cone |-> "waiting"],
         args    |-> [v \in cone |-> <<>>],
         out     |-> [v \in cone |-> NoRes],
         results |-> <<>>]

\* faulty variant of flowReady: one parent result is enough
flowReady_AnyParent(fs, v) ==
    fs.st[v] = "waiting" /\ (fs.pending[v] = 0 \/ fs.inbox[v] # <<>>)

\* a vertex is eligible once its counter is at zero
flowReady(fs, v) == fs.st[v] = "waiting" /\ fs.pending[v] = 0

\* the callback of v is started with what its inbox holds
flowInvoke(fs, v) ==
    [fs EXCEPT !.st[v] = "running", !.args[v] = fs.inbox[v]]

\* faulty variant of flowLeaf: the start vertex never counts as a leaf
flowLeaf_NotStart(g, fs, v) == dagGetChildren(g, v) = {} /\ v # fs.start

flowLeaf(g, fs, v) == dagGetChildren(g, v) = {}

\* the callback of v returned: its result goes to every child and, from a
\* leaf, to the result list
flowReturn(g, fs, v) ==
    LET r == flowCallback(v, fs.args[v], fs.failing)
        children == dagGetChildren(g, v)
    IN  [fs EXCEPT !.st[v] = "returned", !.out[v] = r,
                   !.inbox = [c \in fs.cone |-> IF c \in children THEN Append(fs.inbox[c], r)
                                                ELSE fs.inbox[c]],
                   !.pending = [c \in fs.cone |-> IF c \in children THEN fs.pending[c] - 1
                                                  ELSE fs.pending[c]],
                   !.results = IF flowLeaf(g, fs, v) THEN Append(@, r) ELSE @]

\* the maps of the struct, and those a copy has in common with its source:
\* every map of newDAG is made by NewGenericDAG, and the copy is written
\* only through newDAG's own AddVertexByID and AddEdge
MapFields ==
    {"vertices", "vertexValues", "inboundEdge", "outboundEdge", "ancestorsCache", "descendantsCache"}

\* faulty variant: newDAG is a copy of the struct, with the maps of the source
CopyShares_StructCopy == MapFields

CopyShares == {}

(***************************************************************************)
(* SpecDag: the operations on a whole graph, applied to a graph drawn from *)
(* the acyclic graphs of up to DagOrder vertices, with the queries and the *)
(* edge deletions that leave the caches partly filled between them.        *)
(***************************************************************************)
\* what UnmarshalGenericJSON returns for the vertices IdNames[1..n], the
\* edge set E over them and, when withEmpty, one more vertex of id ""
DagOf(n, E, withEmpty, options) ==
    UnmarshalGenericJSONOf(
        [vs |-> [i \in 1..n |-> [i |-> IdNames[i], v |-> i]]
                    \o (IF withEmpty THEN <<[i |-> "", v |-> n + 1]>> ELSE <<>>),
         es |-> SetToSeq({[s |-> IdNames[e[1]], d |-> IdNames[e[2]]] : e \in E})],
        options)

\* the graphs it returns (under the custom policy, those without a collision)
DagInputs ==
    LET built == UNION {{DagOf(n, E, w, o) :
                            E \in SUBSET {e \in (1..n) \X (1..n) : e[1] < e[2]},
                            w \in {b \in BOOLEAN : b => n < DagOrder},
                            o \in Policies} :
                          n \in 0..DagOrder}
    IN  {r.g : r \in {x \in built : x.err = "nil"}}

InitDag ==
    /\ d \in DagInputs
    /\ last = [op |-> "UnmarshalGenericJSON", err |-> "nil", id |-> "", res |-> NoRes]

\* MarshalJSON: the graph is read only; the document is the result
MarshalJSON ==
    \E doc \in MarshalJSONOf(d) :
        /\ d' = d
        /\ last' = [op |-> "MarshalJSON", err |-> "nil", id |-> "", res |-> doc]

\* UnmarshalGenericJSON of the document just written, with the options of
\* the graph it was written from: the result is a new graph, or none
UnmarshalMarshalled ==
    /\ last.op = "MarshalJSON"
    /\ LET r == UnmarshalGenericJSONOf(last.res, d.options) IN
       /\ d' = d
       /\ last' = [op |-> "UnmarshalMarshalled", err |-> r.err, id |-> "",
                   res |-> IF r.err = "nil" THEN r.g ELSE NoRes]

NextDag ==
    \/ MarshalJSON
    \/ UnmarshalMarshalled
    \/ ReduceTransitively
    \/ FlushCaches
    \/ \E id \in IdPool : GetDescendants(id) /\ Accepted
    \/ \E s \in IdPool, t \in IdPool : DeleteEdge(s, t) /\ Accepted

SpecDag == InitDag /\ [][NextDag]_vars

(***************************************************************************)
(* SpecWalk: GenericOrderedWalk on a drawn graph, one iteration of its     *)
(* queue loop per step.  The walk holds the graph read lock throughout, so *)
(* the graph does not change; last.res holds the queue, the visited set    *)
(* and the sequence of the visitor's calls.  The loop runs on its own      *)
(* thread and is never suspended for good: weak fairness of its steps.     *)
(***************************************************************************)
OrderedWalkStart ==
    /\ last.op = "UnmarshalGenericJSON"
    /\ \E ids \in Perms(getRootIDs(d)) :
          /\ d' = d
          /\ last' = [op |-> "GenericOrderedWalk", err |-> "running", id |-> "",
                      res |-> [queue |-> ids, visited |-> {}, visits |-> <<>>]]

\* one iteration of: for len(queue) > 0 { ... }
OrderedWalkStep ==
    /\ last.op = "GenericOrderedWalk" /\ last.err = "running"
    /\ Len(last.res.queue) > 0
    /\ LET id == Head(last.res.queue)
           rest == Tail(last.res.queue)
           visited == last.res.visited
       IN  /\ d' = d
           /\ IF id \in visited
              THEN last' = [last EXCEPT !.res.queue = rest]
              ELSE IF \E parent \in getParentIDs(d, id) : parent \notin visited
              THEN last' = [last EXCEPT !.res.queue = Append(rest, id)]
              ELSE \E childIDs \in Perms(getChildrenIDs(d, id)) :
                      LET notVisited(x) == x \notin visited \cup {id}
                      IN  last' = [last EXCEPT
                                     !.res.queue = rest \o SelectSeq(childIDs, notVisited),
                                     !.res.visited = visited \cup {id},
                                     !.res.visits = Append(@, id)]

\* the queue is empty: the walk returns
OrderedWalkReturn ==
    /\ last.op = "GenericOrderedWalk" /\ last.err = "running"
    /\ Len(last.res.queue) = 0
    /\ d' = d
    /\ last' = [last EXCEPT !.err = "nil"]

NextWalk ==
    \/ OrderedWalkStart
    \/ OrderedWalkStep
    \/ OrderedWalkReturn

SpecWalk == InitDag /\ [][NextWalk]_vars /\ WF_vars(NextWalk)

(***************************************************************************)
(* SpecCopy: Copy of a drawn graph, then one mutation of the copy or of    *)
(* the source.  d is the source; last.res holds the copy and the maps it   *)
(* has in common with the source.  A write to a map that both have is a    *)
(* write to both.                                                          *)
(***************************************************************************)
Copy ==
    /\ last.op = "UnmarshalGenericJSON"
    /\ \E st \in CopyOf(d) :
          /\ d' = d
          /\ last' = [op |-> "Copy", err |-> st.err, id |-> "",
                      res |-> [g |-> st.g, shares |-> CopyShares]]

\* the mutations tried on one of the two graphs
Mutations(g) ==
    {[op |-> "AddVertexByID", r |-> addVertexByID(g, IdNames[DagOrder + 1], DagOrder + 2)]}
    \cup {[op |-> "AddEdge", r |-> addEdge(g, s, t)] : s \in DOMAIN g.vertexValues, t \in DOMAIN g.vertexValues}
    \cup {[op |-> "DeleteEdge", r |-> deleteEdge(g, s, t)] : s \in DOMAIN g.vertexValues, t \in DOMAIN g.vertexValues}
    \cup {[op |-> "DeleteVertex", r |-> deleteVertex(g, id)] : id \in DOMAIN g.vertexValues}

\* what the other graph holds after one graph was written: the written maps
\* where the two have the map in common, its own elsewhere
SeenThrough(other, written, shares) ==
    [f \in DOMAIN other |-> IF f \in shares THEN written[f] ELSE other[f]]

MutateCopy ==
    /\ last.op = "Copy" /\ last.err = "nil"
    /\ \E m \in Mutations(last.res.g) :
          /\ m.r.err = "nil"
          /\ d' = SeenThrough(d, m.r.g, last.res.shares)
          /\ last' = [op |-> "MutateCopy", err |-> m.r.err, id |-> m.op,
                      res |-> [last.res EXCEPT !.g = m.r.g]]

MutateSource ==
    /\ last.op = "Copy" /\ last.err = "nil"
    /\ \E m \in Mutations(d) :
          /\ m.r.err = "nil"
          /\ d' = m.r.g
          /\ last' = [op |-> "MutateSource", err |-> m.r.err, id |-> m.op,
                      res |-> [last.res EXCEPT !.g = SeenThrough(@, m.r.g, last.res.shares)]]

NextCopy ==
    \/ Copy
    \/ MutateCopy
    \/ MutateSource

SpecCopy == InitDag /\ [][NextCopy]_vars

(***************************************************************************)
(* SpecSubgraph: the queries on the cone of a vertex of a drawn graph.     *)
(* last.res holds the returned graph and seed id (GetDescendantsGraph,     *)
(* GetAncestorsGraph) or the returned sequence (GetOrderedDescendants,     *)
(* GetOrderedAncestors).                                                   *)
(***************************************************************************)
GetDescendantsGraph(id) ==
    /\ last.op = "UnmarshalGenericJSON"
    /\ \E r \in getRelativesGraph(d, id, FALSE) :
          /\ d' = d
          /\ last' = [op |-> "GetDescendantsGraph", err |-> r.err, id |-> id,
                      res |-> [g |-> r.g, id |-> r.id]]

GetAncestorsGraph(id) ==
    /\ last.op = "UnmarshalGenericJSON"
    /\ \E r \in getRelativesGraph(d, id, TRUE) :
          /\ d' = d
          /\ last' = [op |-> "GetAncestorsGraph", err |-> r.err, id |-> id,
                      res |-> [g |-> r.g, id |-> r.id]]

GetOrderedDescendants(id) ==
    /\ last.op = "UnmarshalGenericJSON"
    /\ \E r \in getOrderedRelatives(d, id, FALSE) :
          /\ d' = d
          /\ last' = [op |-> "GetOrderedDescendants", err |-> r.err, id |-> id, res |-> r.res]

GetOrderedAncestors(id) ==
    /\ last.op = "UnmarshalGenericJSON"
    /\ \E r \in getOrderedRelatives(d, id, TRUE) :
          /\ d' = d
          /\ last' = [op |-> "GetOrderedAncestors", err |-> r.err, id |-> id, res |-> r.res]

NextSubgraph ==
    \/ \E id \in IdPool : GetDescendantsGraph(id)
    \/ \E id \in IdPool : GetAncestorsGraph(id)
    \/ \E id \in IdPool : GetOrderedDescendants(id)
    \/ \E id \in IdPool : GetOrderedAncestors(id)

SpecSubgraph == InitDag /\ [][NextSubgraph]_vars

(***************************************************************************)
(* SpecWalker: DescendantsWalker / AncestorsWalker on a drawn graph, with  *)
(* the walking goroutine, the consumer of the stream and one mutation that *)
(* asks for the graph lock.  last.res holds the goroutine (pc, fifo,       *)
(* visited, top), the channels (signal: values buffered, closed), the      *)
(* read locks held, the consumer (cpc, got) and the mutation (mpc).  The   *)
(* lock is Go's RWMutex: a waiting writer keeps new readers out.           *)
(***************************************************************************)
Walking == last.op \in {"DescendantsWalker", "AncestorsWalker"} /\ last.err = "nil"

\* the edges walkDescendants / walkAncestors follows
WalkerEdges == IF last.op = "AncestorsWalker" THEN d.inboundEdge ELSE d.outboundEdge

\* DescendantsWalker / AncestorsWalker up to its return: saneID under the
\* read lock, the channels made, the goroutine started, the lock released
WalkerStart(id, asc) ==
    /\ last.op = "UnmarshalGenericJSON"
    /\ d' = d
    /\ last' = [op  |-> IF asc THEN "AncestorsWalker" ELSE "DescendantsWalker",
                err |-> saneID(d, id), id |-> id,
                res |-> IF saneID(d, id) # "nil" THEN NoRes
                        ELSE [pc |-> "rlock", fifo |-> <<>>, visited |-> {}, top |-> 0,
                              signal |-> 0, closed |-> FALSE, readers |-> 0,
                              cpc |-> "receiving", got |-> <<>>, mpc |-> "idle"]]

\* go func: d.muDAG.RLock()
WalkerRLock ==
    /\ Walking /\ last.res.pc = "rlock" /\ last.res.mpc # "waiting"
    /\ d' = d
    /\ last' = [last EXCEPT !.res.pc = "first", !.res.readers = @ + 1]

\* the first loop of the walk: the relatives of the seed, in any order
WalkerFirst ==
    /\ Walking /\ last.res.pc = "first"
    /\ d' = d
    /\ LET \* v := d.vertexValues[id]: the zero value when id is absent
           v == IF last.id \in DOMAIN d.vertexValues THEN d.vertexValues[last.id]
                ELSE NilPayload
           vHash == hashVertex(d, v)
       IN  \E order \in Perms(MapGet(WalkerEdges, vHash)) :
              last' = [last EXCEPT !.res.pc = "loop", !.res.fifo = order,
                                   !.res.visited = MapGet(WalkerEdges, vHash)]

\* one pass of for { ... } up to the select
WalkerLoop ==
    /\ Walking /\ last.res.pc = "loop"
    /\ d' = d
    /\ IF last.res.fifo = <<>>
       THEN last' = [last EXCEPT !.res.pc = "runlock"]
       ELSE LET top == Head(last.res.fifo)
                new == MapGet(WalkerEdges, top) \ last.res.visited
            IN  \E order \in Perms(new) :
                   last' = [last EXCEPT !.res.pc = "select", !.res.top = top,
                                        !.res.fifo = Tail(@) \o order,
                                        !.res.visited = @ \cup new]

\* select { case <-signal: return; default: (go on to the send) }
WalkerSelect ==
    /\ Walking /\ last.res.pc = "select"
    /\ d' = d
    /\ IF last.res.signal > 0
       THEN last' = [last EXCEPT !.res.pc = "runlock", !.res.signal = @ - 1]
       ELSE last' = [last EXCEPT !.res.pc = "send"]

\* ids <- d.vertices[top]: the channel has no buffer, the send completes
\* together with a receive of the consumer
WalkerSend ==
    /\ Walking /\ last.res.pc = "send" /\ last.res.cpc = "receiving"
    /\ d' = d
    /\ last' = [last EXCEPT !.res.pc = "loop", !.res.got = Append(@, d.vertices[last.res.top])]

\* d.muDAG.RUnlock()
WalkerRUnlock ==
    /\ Walking /\ last.res.pc = "runlock"
    /\ d' = d
    /\ last' = [last EXCEPT !.res.pc = "close", !.res.readers = @ - 1]

\* close(ids); close(signal)
WalkerClose ==
    /\ Walking /\ last.res.pc = "close"
    /\ d' = d
    /\ last' = [last EXCEPT !.res.pc = "done", !.res.closed = TRUE]

\* the consumer raises the signal and stops receiving
ConsumerCancel ==
    /\ Walking /\ last.res.cpc = "receiving" /\ ~last.res.closed /\ last.res.signal = 0
    /\ d' = d
    /\ last' = [last EXCEPT !.res.cpc = "cancelled", !.res.signal = 1]

\* for id := range ids ends when the channel is closed
ConsumerEnd ==
    /\ Walking /\ last.res.cpc = "receiving" /\ last.res.closed
    /\ d' = d
    /\ last' = [last EXCEPT !.res.cpc = "ended"]

\* a mutation calls d.muDAG.Lock()
MutationLock ==
    /\ Walking /\ last.res.mpc = "idle"
    /\ d' = d
    /\ last' = [last EXCEPT !.res.mpc = "waiting"]

\* the mutation gets the lock once no read lock is held, writes and unlocks
MutationProceeds ==
    /\ Walking /\ last.res.mpc = "waiting" /\ last.res.readers = 0
    /\ d' = addVertexByID(d, IdNames[DagOrder + 1], DagOrder + 2).g
    /\ last' = [last EXCEPT !.res.mpc = "done"]

WalkerGo ==
    \/ WalkerRLock
    \/ WalkerFirst
    \/ WalkerLoop
    \/ WalkerSelect
    \/ WalkerSend
    \/ WalkerRUnlock
    \/ WalkerClose

NextWalker ==
    \/ \E id \in IdPool, asc \in BOOLEAN : WalkerStart(id, asc)
    \/ WalkerGo
    \/ ConsumerCancel
    \/ ConsumerEnd
    \/ MutationLock
    \/ MutationProceeds

SpecWalker ==
    InitDag /\ [][NextWalker]_vars /\ WF_vars(WalkerGo) /\ WF_vars(MutationProceeds)

(***************************************************************************)
(* SpecVisit: DFSWalk and BFSWalk on a drawn graph whose edges may join    *)
(* the ids in any direction; last.res holds the ids the visitor was called *)
(* with, in order.                                                         *)
(***************************************************************************)
\* the graphs over IdNames[1..n] (and "" when withEmpty) with any acyclic
\* edge set
LabelledDags ==
    LET built == UNION {{DagOf(n, E, w, "default") :
                            E \in SUBSET {e \in (1..n) \X (1..n) : e[1] # e[2]},
                            w \in {b \in BOOLEAN : b => n < DagOrder}} :
                          n \in 0..DagOrder}
    IN  {r.g : r \in {x \in built : x.err = "nil"}}

InitVisit ==
    /\ d \in LabelledDags
    /\ last = [op |-> "UnmarshalGenericJSON", err |-> "nil", id |-> "", res |-> NoRes]

DFSWalk ==
    /\ d' = d
    /\ last' = [op |-> "DFSWalk", err |-> "nil", id |-> "", res |-> DFSWalkOf(d)]

BFSWalk ==
    /\ d' = d
    /\ last' = [op |-> "BFSWalk", err |-> "nil", id |-> "", res |-> BFSWalkOf(d)]

NextVisit ==
    \/ DFSWalk
    \/ BFSWalk

SpecVisit == InitVisit /\ [][NextVisit]_vars

(***************************************************************************)
(* SpecFlow: DescendantsFlow on a drawn graph, one step per callback start *)
(* and per callback return; the callbacks of distinct vertices interleave. *)
(* last.res holds the flow state; last.err is "running" until the call     *)
(* returns.                                                                *)
(***************************************************************************)
SeedValue == 10

Flowing == last.op = "DescendantsFlow" /\ last.err = "running"

FlowStart(startID, inputs, failing) ==
    /\ last.op = "UnmarshalGenericJSON"
    /\ d' = d
    /\ last' = IF saneID(d, startID) # "nil"
               THEN [op |-> "DescendantsFlow", err |-> saneID(d, startID), id |-> startID, res |-> NoRes]
               ELSE [op |-> "DescendantsFlow", err |-> "running", id |-> startID,
                     res |-> flowStart(d, startID, inputs, failing)]

FlowInvoke(v) ==
    /\ Flowing /\ v \in last.res.cone /\ flowReady(last.res, v)
    /\ d' = d
    /\ last' = [last EXCEPT !.res = flowInvoke(last.res, v)]

FlowReturn(v) ==
    /\ Flowing /\ v \in last.res.cone /\ last.res.st[v] = "running"
    /\ d' = d
    /\ last' = [last EXCEPT !.res = flowReturn(d, last.res, v)]

\* every callback has returned: the call returns the collected results
FlowJoin ==
    /\ Flowing /\ \A v \in last.res.cone : last.res.st[v] = "returned"
    /\ d' = d
    /\ last' = [last EXCEPT !.err = "nil"]

NextFlow ==
    \/ \E startID \in IdPool :
          \E inputs \in {<<>>, <<[id |-> startID, result |-> SeedValue, error |-> FALSE]>>},
             failing \in {{}} \cup {{v} : v \in DOMAIN d.vertexValues} :
             FlowStart(startID, inputs, failing)
    \/ \E v \in DOMAIN d.vertexValues : FlowInvoke(v)
    \/ \E v \in DOMAIN d.vertexValues : FlowReturn(v)
    \/ FlowJoin

SpecFlow == InitDag /\ [][NextFlow]_vars /\ WF_vars(NextFlow)

(***************************************************************************)
(* SpecNil: AddVertex and AddVertexByID of the generic graph with payloads *)
(* that include the nil value of a pointer or interface type T; last.res   *)
(* keeps the payload passed.  T carries no id of its own, so AddVertex     *)
(* draws a fresh id.                                                       *)
(***************************************************************************)
PayloadsWithNil == Payloads \cup {NilPayload}

AddVertexArg(v) ==
    \E id \in NonEmptyIds \ DOMAIN d.vertexValues :
        LET r == addVertexByID(d, id, v) IN
        /\ r.err = "nil" => Cardinality(DOMAIN d.vertexValues) < MaxOrder
        /\ d' = r.g
        /\ last' = [op |-> "AddVertex", err |-> r.err, id |-> id, res |-> <<v>>]

AddVertexByIDArg(id, v) ==
    LET r == addVertexByID(d, id, v) IN
    /\ r.err = "nil" => Cardinality(DOMAIN d.vertexValues) < MaxOrder
    /\ d' = r.g
    /\ last' = [op |-> "AddVertexByID", err |-> r.err, id |-> id, res |-> <<v>>]

NextNil ==
    \/ \E v \in PayloadsWithNil : AddVertexArg(v)
    \/ \E id \in IdPool, v \in PayloadsWithNil : AddVertexByIDArg(id, v)

SpecNil == Init /\ [][NextNil]_vars

(***************************************************************************)
(* SpecBuild: NumReaders readers, each in one call of GetDescendants or    *)
(* GetAncestors on a drawn graph with empty caches, one step per lock      *)
(* operation.  last.res holds the readers' stacks of getDescendants /      *)
(* getAncestors frames (key, asc, pc, todo, cache) and the table           *)
(* verticesLocked (key -> holder, 0 when free).  The readers share the     *)
(* graph read lock, which no one else asks for here.                       *)
(***************************************************************************)
NumReaders == 2

BuildOrder == 3

Readers == 1..NumReaders

InitBuild ==
    /\ d \in {flushCaches(g) : g \in {x \in DagInputs : Cardinality(DOMAIN x.vertices) <= BuildOrder}}
    /\ last = [op |-> "FlushCaches", err |-> "nil", id |-> "", res |-> NoRes]

Building == last.op = "Readers" /\ last.err = "running"

CacheOf(g, asc) == IF asc THEN g.ancestorsCache ELSE g.descendantsCache

Frame(key, asc) == [key |-> key, asc |-> asc, pc |-> "check", todo |-> <<>>, cache |-> {}]

\* the readers enter GetDescendants / GetAncestors: saneID passed, the
\* first frame of each is for the key of its id
ReadersCall ==
    /\ last.op = "FlushCaches"
    /\ d' = d
    /\ \E calls \in [Readers -> (DOMAIN d.vertexValues \ {""}) \X BOOLEAN] :
          last' = [op |-> "Readers", err |-> "running", id |-> "",
                   res |-> [stack |-> [t \in Readers |->
                                         <<Frame(hashVertex(d, d.vertexValues[calls[t][1]]), calls[t][2])>>],
                            calls |-> calls,
                            verticesLocked |-> [k \in DOMAIN d.vertices |-> 0]]]

\* the top frame of reader t returns the set result: its caller adds the
\* set and the key to its own and goes on with its next relative
FrameReturn(stack, result) ==
    LET n == Len(stack)
    IN  IF n = 1 THEN <<>>
        ELSE [SubSeq(stack, 1, n - 1) EXCEPT
                 ![n - 1].cache = @ \cup result \cup {stack[n].key},
                 ![n - 1].todo = Tail(@)]

\* first check of the cache, under the cache read lock
ReaderCheck(t) ==
    /\ Building /\ last.res.stack[t] # <<>>
    /\ LET stack == last.res.stack[t]
           f == stack[Len(stack)]
       IN  /\ f.pc = "check"
           /\ d' = d
           /\ last' = [last EXCEPT !.res.stack[t] =
                          IF f.key \in DOMAIN CacheOf(d, f.asc)
                          THEN FrameReturn(stack, CacheOf(d, f.asc)[f.key])
                          ELSE [stack EXCEPT ![Len(stack)].pc = "lock"]]

\* d.verticesLocked.lock(vHash): waits while another builder holds the key
ReaderLock(t) ==
    /\ Building /\ last.res.stack[t] # <<>>
    /\ LET stack == last.res.stack[t]
           f == stack[Len(stack)]
       IN  /\ f.pc = "lock"
           /\ last.res.verticesLocked[f.key] = 0
           /\ d' = d
           /\ last' = [last EXCEPT !.res.verticesLocked[f.key] = t,
                                   !.res.stack[t][Len(stack)].pc = "recheck"]

\* faulty variant: no second check, the holder of the key always builds
ReaderRecheck_AlwaysBuild(t) ==
    /\ Building /\ last.res.stack[t] # <<>>
    /\ LET stack == last.res.stack[t]
           f == stack[Len(stack)]
           edges == IF f.asc THEN d.inboundEdge ELSE d.outboundEdge
       IN  /\ f.pc = "recheck"
           /\ d' = d
           /\ \E order \in Perms(MapGet(edges, f.key)) :
                 last' = [last EXCEPT !.res.stack[t][Len(stack)].pc = "loop",
                                      !.res.stack[t][Len(stack)].todo = order]

\* second check of the cache with the key locked; on a miss the loop over
\* the relatives starts, in any order
ReaderRecheck(t) ==
    /\ Building /\ last.res.stack[t] # <<>>
    /\ LET stack == last.res.stack[t]
           f == stack[Len(stack)]
           edges == IF f.asc THEN d.inboundEdge ELSE d.outboundEdge
       IN  /\ f.pc = "recheck"
           /\ d' = d
           /\ IF f.key \in DOMAIN CacheOf(d, f.asc)
              THEN last' = [last EXCEPT !.res.verticesLocked[f.key] = 0,
                                        !.res.stack[t] = FrameReturn(stack, CacheOf(d, f.asc)[f.key])]
              ELSE \E order \in Perms(MapGet(edges, f.key)) :
                      last' = [last EXCEPT !.res.stack[t][Len(stack)].pc = "loop",
                                           !.res.stack[t][Len(stack)].todo = order]

\* the loop: the recursive call for the next relative, or, at its end, the
\* entry written to the cache, the key unlocked and the return
ReaderLoop(t) ==
    /\ Building /\ last.res.stack[t] # <<>>
    /\ LET stack == last.res.stack[t]
           f == stack[Len(stack)]
       IN  /\ f.pc = "loop"
           /\ IF f.todo # <<>>
              THEN /\ d' = d
                   /\ last' = [last EXCEPT !.res.stack[t] = Append(stack, Frame(Head(f.todo), f.asc))]
              ELSE /\ d' = IF f.asc THEN [d EXCEPT !.ancestorsCache = MapPut(@, f.key, f.cache)]
                           ELSE [d EXCEPT !.descendantsCache = MapPut(@, f.key, f.cache)]
                   /\ last' = [last EXCEPT !.res.verticesLocked[f.key] = 0,
                                           !.res.stack[t] = FrameReturn(stack, f.cache)]

ReaderStep(t) ==
    \/ ReaderCheck(t)
    \/ ReaderLock(t)
    \/ ReaderRecheck(t)
    \/ ReaderLoop(t)

\* every reader has returned
ReadersReturn ==
    /\ Building /\ \A t \in Readers : last.res.stack[t] = <<>>
    /\ d' = d
    /\ last' = [last EXCEPT !.err = "nil"]

NextBuild ==
    \/ ReadersCall
    \/ \E t \in Readers : ReaderStep(t)
    \/ ReadersReturn

SpecBuild ==
    InitBuild /\ [][NextBuild]_vars
    /\ \A t \in Readers : WF_vars(ReaderStep(t))
    /\ WF_vars(ReadersReturn)

(***************************************************************************)
(* SpecRead: the two readers, each applied to a document drawn from the    *)
(* documents of up to ReadVs vertices and ReadEs edges.  last.res holds    *)
(* the document until it is read.                                          *)
(***************************************************************************)
ReadDocs == [vs : SeqsUpTo(StorableVertices, ReadVs), es : SeqsUpTo(StorableEdges, ReadEs)]

InitRead ==
    /\ d \in {NewGenericDAG(o) : o \in Policies}
    /\ \E doc \in ReadDocs :
          last = [op |-> "NewGenericDAG", err |-> "nil", id |-> "", res |-> doc]

NextRead ==
    \/ UnmarshalGenericJSON(last.res)
    \/ UnmarshalJSON(last.res)

SpecRead == InitRead /\ [][NextRead]_vars

(***************************************************************************)
(* SpecOptions: the graph with Options among its methods.  Options takes   *)
(* the graph lock and stores the options it is given; it reads neither the *)
(* vertices nor the edges.                                                 *)
(***************************************************************************)
Options(options) == Returns("Options", Ret([d EXCEPT !.options = options], "nil"))

\* AddEdge reads the relatives through getDescendants and getAncestors, whose recursion ends only when it meets no cycle.  Keys
\* computed under another policy than the one the edges were stored under
\* can close a cycle; a call on such a graph does not return and is no step.
RelativesEnd(g) ==
    LET R == {e \in (DOMAIN g.outboundEdge) \X (UNION {g.outboundEdge[k] : k \in DOMAIN g.outboundEdge}) :
                 e[2] \in g.outboundEdge[e[1]]}
        RECURSIVE reach(_)
        reach(S) == LET T == S \cup {e[2] : e \in {x \in R : x[1] \in S}}
                    IN  IF T = S THEN S ELSE reach(T)
    IN  \A e \in R : e[1] \notin reach({e[2]})

NextOptions ==
    \/ \E options \in Policies : Options(options)
    \/ \E iv \in VertexInputs : AddVertexByID(iv[1], iv[2]) /\ Accepted
    \/ \E s \in IdPool, t \in IdPool : RelativesEnd(d) /\ AddEdge(s, t) /\ Accepted

SpecOptions == Init /\ [][NextOptions]_vars

(***************************************************************************)
(* SpecConc: one caller of GetDescendants / GetAncestors and one caller of *)
(* AddEdge, DeleteEdge or DeleteVertex on a drawn graph, each taken one    *)
(* statement group at a time.  last.id is the id the reader asks for;      *)
(* last.res holds the reader (asc, rpc, out), the mutation (m, wpc, fin:   *)
(* the graph it will leave), the graph lock (readers: read locks held) and *)
(* the graph as it was when the two calls were made (before).  The lock is *)
(* Go's RWMutex: Lock waits until no read lock is held, RLock waits while  *)
(* a writer holds the lock or waits for it.                                *)
(***************************************************************************)
ConcOrder == 3

\* the cache as earlier queries have left it: empty, or filled for every key
populate(g) ==
    [g EXCEPT !.descendantsCache = fillRec(g.outboundEdge, @, DOMAIN g.vertices),
              !.ancestorsCache = fillRec(g.inboundEdge, @, DOMAIN g.vertices)]

InitConc ==
    /\ d \in UNION {{g, populate(g)} :
                      g \in {x \in DagInputs : Cardinality(DOMAIN x.vertices) <= ConcOrder}}
    /\ last = [op |-> "UnmarshalGenericJSON", err |-> "nil", id |-> "", res |-> NoRes]

ConcMutations ==
    [op : {"AddEdge", "DeleteEdge"}, s : NonEmptyIds, t : NonEmptyIds]
        \cup [op : {"DeleteVertex"}, s : NonEmptyIds, t : {""}]

\* the mutation m as a whole: the graph it leaves and the error it returns
applyMutation(g, m) ==
    CASE m.op = "AddEdge" -> addEdge(g, m.s, m.t)
      [] m.op = "DeleteEdge" -> deleteEdge(g, m.s, m.t)
      [] m.op = "DeleteVertex" -> deleteVertex(g, m.s)

\* "get descendants and ancestors as they are now": the graph with the
\* caches filled by the two reads that precede the writes of an accepted m
readRelatives(g, m) ==
    LET srcHash == hashVertex(g, g.vertexValues[m.s])
        dstHash == IF m.op = "DeleteVertex" THEN srcHash
                   ELSE hashVertex(g, g.vertexValues[m.t])
    IN  CASE m.op = "AddEdge" -> getAncestors(getDescendants(g, dstHash), srcHash)
          [] m.op = "DeleteEdge" -> getAncestors(getDescendants(g, srcHash), dstHash)
          [] m.op = "DeleteVertex" -> getAncestors(getDescendants(g, srcHash), srcHash)

Concurrent == last.op = "Concurrent"

\* the two calls are made
ConcCall(id, asc, m) ==
    /\ last.op = "UnmarshalGenericJSON"
    /\ d' = d
    /\ last' = [op |-> "Concurrent", err |-> "running", id |-> id,
                res |-> [asc |-> asc, rpc |-> "rlock", out |-> [err |-> "", res |-> EmptyMap],
                         m |-> m, wpc |-> "lock", fin |-> d, readers |-> 0,
                         before |-> d]]

\* the writer holds the lock, or has called Lock and waits for the readers
WriterIn == last.res.wpc \notin {"lock", "done"}

\* faulty variant: the read lock is granted whatever the writer does
ConcRLock_NoWait ==
    /\ Concurrent /\ last.res.rpc = "rlock"
    /\ d' = d
    /\ last' = [last EXCEPT !.res.rpc = "sane", !.res.readers = @ + 1]

\* d.muDAG.RLock()
ConcRLock ==
    /\ Concurrent /\ last.res.rpc = "rlock" /\ ~WriterIn
    /\ d' = d
    /\ last' = [last EXCEPT !.res.rpc = "sane", !.res.readers = @ + 1]

\* saneID, the key of the vertex, and the first look into the cache
ConcCheck ==
    /\ Concurrent /\ last.res.rpc = "sane"
    /\ d' = d
    /\ IF saneID(d, last.id) # "nil"
       THEN last' = [last EXCEPT !.res.rpc = "runlock",
                                 !.res.out = [err |-> saneID(d, last.id), res |-> EmptyMap]]
       ELSE LET vHash == hashVertex(d, d.vertexValues[last.id])
                cache == CacheOf(d, last.res.asc)
            IN  IF vHash \in DOMAIN cache
                THEN last' = [last EXCEPT !.res.rpc = "runlock",
                                          !.res.out = [err |-> "nil", res |-> AsVertices(d, cache[vHash])]]
                ELSE last' = [last EXCEPT !.res.rpc = "build"]

\* the miss: the entry is built from the adjacency and the entries found,
\* published, and the returned map is made from it
ConcBuild ==
    /\ Concurrent /\ last.res.rpc = "build"
    /\ LET r == IF last.res.asc THEN GetAncestorsOf(d, last.id) ELSE GetDescendantsOf(d, last.id)
       IN  /\ d' = r.g
           /\ last' = [last EXCEPT !.res.rpc = "runlock",
                                   !.res.out = [err |-> r.err, res |-> r.res]]

\* the deferred d.muDAG.RUnlock() and the return
ConcRUnlock ==
    /\ Concurrent /\ last.res.rpc = "runlock"
    /\ d' = d
    /\ last' = [last EXCEPT !.res.rpc = "done", !.res.readers = @ - 1]

\* the mutation calls d.muDAG.Lock(): from now on no new reader gets in
MutationLockCall ==
    /\ Concurrent /\ last.res.wpc = "lock"
    /\ d' = d
    /\ last' = [last EXCEPT !.res.wpc = "waiting"]

\* Lock returns once no read lock is held
MutationLocked ==
    /\ Concurrent /\ last.res.wpc = "waiting" /\ last.res.readers = 0
    /\ d' = d
    /\ last' = [last EXCEPT !.res.wpc = "check"]

\* the checks of the arguments and, when they pass, the two reads of the
\* relatives, which fill the caches
MutationCheck ==
    /\ Concurrent /\ last.res.wpc = "check"
    /\ LET r == applyMutation(d, last.res.m)
       IN  IF r.err # "nil"
           THEN /\ d' = d
                /\ last' = [last EXCEPT !.res.wpc = "unlock"]
           ELSE /\ d' = readRelatives(d, last.res.m)
                /\ last' = [last EXCEPT !.res.wpc = "edges", !.res.fin = r.g]

\* the writes of the outbound and inbound maps
MutationEdges ==
    /\ Concurrent /\ last.res.wpc = "edges"
    /\ d' = [d EXCEPT !.outboundEdge = last.res.fin.outboundEdge,
                      !.inboundEdge = last.res.fin.inboundEdge]
    /\ last' = [last EXCEPT !.res.wpc = "ancestors"]

\* the deletes in the ancestors cache
MutationAncestorsCache ==
    /\ Concurrent /\ last.res.wpc = "ancestors"
    /\ d' = [d EXCEPT !.ancestorsCache = last.res.fin.ancestorsCache]
    /\ last' = [last EXCEPT !.res.wpc = "descendants"]

\* the deletes in the descendants cache and, in DeleteVertex, of the vertex
MutationDescendantsCache ==
    /\ Concurrent /\ last.res.wpc = "descendants"
    /\ d' = last.res.fin
    /\ last' = [last EXCEPT !.res.wpc = "unlock"]

\* the deferred d.muDAG.Unlock() and the return
MutationUnlock ==
    /\ Concurrent /\ last.res.wpc = "unlock"
    /\ d' = d
    /\ last' = [last EXCEPT !.res.wpc = "done"]

\* both calls have returned
ConcReturn ==
    /\ Concurrent /\ last.err = "running"
    /\ last.res.rpc = "done" /\ last.res.wpc = "done"
    /\ d' = d
    /\ last' = [last EXCEPT !.err = "nil"]

NextConc ==
    \/ \E id \in NonEmptyIds, asc \in BOOLEAN, m \in ConcMutations : ConcCall(id, asc, m)
    \/ ConcRLock
    \/ ConcCheck
    \/ ConcBuild
    \/ ConcRUnlock
    \/ MutationLockCall
    \/ MutationLocked
    \/ MutationCheck
    \/ MutationEdges
    \/ MutationAncestorsCache
    \/ MutationDescendantsCache
    \/ MutationUnlock
    \/ ConcReturn

SpecConc == InitConc /\ [][NextConc]_vars

(***************************************************************************)
(* SpecSeed: GetDescendantsGraph / GetAncestorsGraph running concurrently  *)
(* with DeleteVertex on a drawn graph.  last.res holds the query (asc, pc, *)
(* vHash: the key computed from the seed read, out: its result), the       *)
(* mutation (victim, wpc), the read locks held (readers) and the graph as  *)
(* it was when the calls were made (before).                               *)
(***************************************************************************)
InitSeed ==
    /\ d \in {x \in DagInputs : Cardinality(DOMAIN x.vertices) <= ConcOrder}
    /\ last = [op |-> "UnmarshalGenericJSON", err |-> "nil", id |-> "", res |-> NoRes]

Seeding == last.op = "getRelativesGraph" /\ last.err = "running"

SeedCall(id, asc, victim) ==
    /\ last.op = "UnmarshalGenericJSON"
    /\ d' = d
    /\ last' = [op |-> "getRelativesGraph", err |-> "running", id |-> id,
                res |-> [asc |-> asc, pc |-> "read", vHash |-> NilPayload,
                         out |-> [g |-> NoRes, id |-> "", err |-> "nil"],
                         victim |-> victim, wpc |-> "lock", readers |-> 0,
                         before |-> d]]

\* the sanity check and the read of d.vertexValues[id]: no lock is held, so
\* a concurrent DeleteVertex may come before it or after it
SeedRead ==
    /\ Seeding /\ last.res.pc = "read"
    /\ d' = d
    /\ IF last.id = ""
       THEN last' = [last EXCEPT !.res.pc = "done", !.res.out.err = "IDEmptyError"]
       ELSE IF last.id \notin DOMAIN d.vertexValues
       THEN last' = [last EXCEPT !.res.pc = "done", !.res.out.err = "IDUnknownError"]
       ELSE last' = [last EXCEPT !.res.pc = "rlock",
                                 !.res.vHash = hashVertex(d, d.vertexValues[last.id])]

\* d.muDAG.RLock(), after the new graph was made
SeedRLock ==
    /\ Seeding /\ last.res.pc = "rlock" /\ last.res.wpc \in {"lock", "done"}
    /\ d' = d
    /\ last' = [last EXCEPT !.res.pc = "rec", !.res.readers = @ + 1]

\* getRelativesGraphRec from the key computed before the lock
SeedRec ==
    /\ Seeding /\ last.res.pc = "rec"
    /\ d' = d
    /\ LET st0 == [g |-> NewGenericDAG("default"), visited |-> EmptyMap, err |-> "nil"]
       IN  \E st \in getRelativesGraphRec(d, last.res.vHash, st0, last.res.asc) :
              last' = [last EXCEPT
                         !.res.pc = "runlock",
                         !.res.out = [g |-> st.g, err |-> st.err,
                                      id |-> IF st.err = "nil" /\ last.res.vHash \in DOMAIN d.vertices
                                             THEN d.vertices[last.res.vHash] ELSE ""]]

\* the deferred d.muDAG.RUnlock() and the return
SeedRUnlock ==
    /\ Seeding /\ last.res.pc = "runlock"
    /\ d' = d
    /\ last' = [last EXCEPT !.res.pc = "done", !.res.readers = @ - 1]

\* DeleteVertex calls d.muDAG.Lock()
DeleteLockCall ==
    /\ Seeding /\ last.res.wpc = "lock"
    /\ d' = d
    /\ last' = [last EXCEPT !.res.wpc = "waiting"]

\* Lock returns once no read lock is held; DeleteVertex runs and unlocks
DeleteProceeds ==
    /\ Seeding /\ last.res.wpc = "waiting" /\ last.res.readers = 0
    /\ d' = deleteVertex(d, last.res.victim).g
    /\ last' = [last EXCEPT !.res.wpc = "done"]

\* both calls have returned
SeedReturn ==
    /\ Seeding /\ last.res.pc = "done" /\ last.res.wpc = "done"
    /\ d' = d
    /\ last' = [last EXCEPT !.err = last.res.out.err]

NextSeed ==
    \/ \E id \in IdPool, asc \in BOOLEAN, victim \in NonEmptyIds : SeedCall(id, asc, victim)
    \/ SeedRead
    \/ SeedRLock
    \/ SeedRec
    \/ SeedRUnlock
    \/ DeleteLockCall
    \/ DeleteProceeds
    \/ SeedReturn

SpecSeed == InitSeed /\ [][NextSeed]_vars

(***************************************************************************)
(* SpecEmit: DescendantsWalker / AncestorsWalker with a consumer that      *)
(* reads the stream to its end, and a DeleteVertex that may run at any     *)
(* moment the lock allows, also between the return of the walker call and  *)
(* the read lock of its goroutine.  last.res is the state of SpecWalker    *)
(* with the id to delete (victim) and the graph at the call (before).      *)
(***************************************************************************)
\* DescendantsWalker / AncestorsWalker up to its return, and the call of
\* DeleteVertex(victim) by another goroutine
EmitStart(id, asc, victim) ==
    /\ last.op = "UnmarshalGenericJSON"
    /\ saneID(d, id) = "nil"
    /\ d' = d
    /\ last' = [op  |-> IF asc THEN "AncestorsWalker" ELSE "DescendantsWalker",
                err |-> "nil", id |-> id,
                res |-> [pc |-> "rlock", fifo |-> <<>>, visited |-> {}, top |-> 0,
                         signal |-> 0, closed |-> FALSE, readers |-> 0,
                         cpc |-> "receiving", got |-> <<>>, mpc |-> "idle",
                         victim |-> victim, before |-> d]]

\* DeleteVertex gets the lock once no read lock is held, deletes and unlocks
MutationDeletes ==
    /\ Walking /\ last.res.mpc = "waiting" /\ last.res.readers = 0
    /\ d' = deleteVertex(d, last.res.victim).g
    /\ last' = [last EXCEPT !.res.mpc = "done"]

NextEmit ==
    \/ \E id \in NonEmptyIds, asc \in BOOLEAN, victim \in NonEmptyIds : EmitStart(id, asc, victim)
    \/ WalkerGo
    \/ ConsumerEnd
    \/ MutationLock
    \/ MutationDeletes

SpecEmit == InitDag /\ [][NextEmit]_vars

(***************************************************************************)
(* SpecOrdered: GetOrderedDescendants / GetOrderedAncestors with the       *)
(* walker they run on, and one mutation that asks for the graph lock.      *)
(* last.op names the walker; last.res is the state of SpecWalker, the      *)
(* consumer being the query itself: cpc goes from "outer" (before its own  *)
(* read lock) over "inner" (before the read lock of the walker call) and   *)
(* "check" to "receiving", "ended" and "returned"; the goroutine is        *)
(* "unborn" until the go statement.                                        *)
(***************************************************************************)
OrderedStart(id, asc) ==
    /\ last.op = "UnmarshalGenericJSON"
    /\ saneID(d, id) = "nil"
    /\ d' = d
    /\ last' = [op  |-> IF asc THEN "AncestorsWalker" ELSE "DescendantsWalker",
                err |-> "nil", id |-> id,
                res |-> [pc |-> "unborn", fifo |-> <<>>, visited |-> {}, top |-> 0,
                         signal |-> 0, closed |-> FALSE, readers |-> 0,
                         cpc |-> "outer", got |-> <<>>, mpc |-> "idle"]]

\* GetOrderedDescendants: d.muDAG.RLock()
OrderedOuterRLock ==
    /\ Walking /\ last.res.cpc = "outer" /\ last.res.mpc # "waiting"
    /\ d' = d
    /\ last' = [last EXCEPT !.res.cpc = "inner", !.res.readers = @ + 1]

\* d.DescendantsWalker(id): d.muDAG.RLock(), with the first read lock held
OrderedInnerRLock ==
    /\ Walking /\ last.res.cpc = "inner" /\ last.res.mpc # "waiting"
    /\ d' = d
    /\ last' = [last EXCEPT !.res.cpc = "check", !.res.readers = @ + 1]

\* the walker call checks the id, starts the goroutine, unlocks its read
\* lock and returns; the query starts to receive
OrderedGo ==
    /\ Walking /\ last.res.cpc = "check"
    /\ d' = d
    /\ last' = [last EXCEPT !.res.cpc = "receiving", !.res.pc = "rlock",
                            !.res.readers = @ - 1]

\* the stream is closed: the deferred d.muDAG.RUnlock() and the return
OrderedReturn ==
    /\ Walking /\ last.res.cpc = "ended"
    /\ d' = d
    /\ last' = [last EXCEPT !.res.cpc = "returned", !.res.readers = @ - 1]

OrderedGoes ==
    \/ OrderedOuterRLock
    \/ OrderedInnerRLock
    \/ OrderedGo
    \/ ConsumerEnd
    \/ OrderedReturn

NextOrdered ==
    \/ \E id \in NonEmptyIds, asc \in BOOLEAN : OrderedStart(id, asc)
    \/ OrderedGoes
    \/ WalkerGo
    \/ MutationLock
    \/ MutationProceeds

SpecOrdered ==
    InitDag /\ [][NextOrdered]_vars
        /\ WF_vars(OrderedGoes) /\ WF_vars(WalkerGo) /\ WF_vars(MutationProceeds)

(***************************************************************************)
(* SpecGeneric: the three walks of the generic graph on a drawn graph,     *)
(* each run whole under the graph read lock.  vertexIDsGeneric ranges over *)
(* a map, so every order of the roots and of each vertex's children is     *)
(* possible; last.res holds the ids the visitor was called with in the run *)
(* that was taken.                                                         *)
(***************************************************************************)
\* vertexIDsGeneric: the keys of the map in the order the range yields them
vertexIDsGeneric(ids) == Perms(ids)

\* the loop of OrderedWalk of the untyped graph
RECURSIVE orderedLoop(_, _, _, _)
orderedLoop(g, queue, visited, visits) ==
    IF queue = <<>> THEN visits
    ELSE LET id == Head(queue)
             rest == Tail(queue)
         IN  IF id \in visited THEN orderedLoop(g, rest, visited, visits)
             ELSE IF \E parent \in dagGetParents(g, id) : parent \notin visited
             THEN orderedLoop(g, Append(rest, id), visited, visits)
             ELSE orderedLoop(g, rest \o vertexIDs(dagGetChildren(g, id)),
                              visited \cup {id}, Append(visits, id))

OrderedWalkOf(g) == orderedLoop(g, vertexIDs(dagGetRoots(g)), {}, <<>>)

\* the stack loop of GenericDFSWalk: every sequence of visits it can make
RECURSIVE genericDfsLoop(_, _, _, _)
genericDfsLoop(g, stack, visited, visits) ==
    IF stack = <<>> THEN {visits}
    ELSE LET id == stack[Len(stack)]
             rest == SubSeq(stack, 1, Len(stack) - 1)
             seen == visited \cup {id}
             called == IF id \in visited THEN visits ELSE Append(visits, id)
         IN  UNION {genericDfsLoop(g, pushUnvisited(rest, childIDs, seen), seen, called) :
                       childIDs \in vertexIDsGeneric(getChildrenIDs(g, id))}

GenericDFSWalkOf(g) ==
    UNION {genericDfsLoop(g, Reverse(ids), {}, <<>>) : ids \in vertexIDsGeneric(getRootIDs(g))}

\* the queue loop of GenericBFSWalk
RECURSIVE genericBfsLoop(_, _, _, _)
genericBfsLoop(g, queue, visited, visits) ==
    IF queue = <<>> THEN {visits}
    ELSE LET id == Head(queue)
             seen == visited \cup {id}
             called == IF id \in visited THEN visits ELSE Append(visits, id)
             notVisited(x) == x \notin seen
         IN  UNION {genericBfsLoop(g, Tail(queue) \o SelectSeq(childIDs, notVisited), seen, called) :
                       childIDs \in vertexIDsGeneric(getChildrenIDs(g, id))}

GenericBFSWalkOf(g) ==
    UNION {genericBfsLoop(g, ids, {}, <<>>) : ids \in vertexIDsGeneric(getRootIDs(g))}

\* the queue loop of GenericOrderedWalk
RECURSIVE genericOrderedLoop(_, _, _, _)
genericOrderedLoop(g, queue, visited, visits) ==
    IF queue = <<>> THEN {visits}
    ELSE LET id == Head(queue)
             rest == Tail(queue)
             seen == visited \cup {id}
             notVisited(x) == x \notin seen
         IN  IF id \in visited THEN genericOrderedLoop(g, rest, visited, visits)
             ELSE IF \E parent \in getParentIDs(g, id) : parent \notin visited
             THEN genericOrderedLoop(g, Append(rest, id), visited, visits)
             ELSE UNION {genericOrderedLoop(g, rest \o SelectSeq(childIDs, notVisited),
                                            seen, Append(visits, id)) :
                            childIDs \in vertexIDsGeneric(getChildrenIDs(g, id))}

GenericOrderedWalkOf(g) ==
    UNION {genericOrderedLoop(g, ids, {}, <<>>) : ids \in vertexIDsGeneric(getRootIDs(g))}

GenericDFSWalk ==
    /\ d' = d
    /\ \E visits \in GenericDFSWalkOf(d) :
          last' = [op |-> "GenericDFSWalk", err |-> "nil", id |-> "", res |-> visits]

GenericBFSWalk ==
    /\ d' = d
    /\ \E visits \in GenericBFSWalkOf(d) :
          last' = [op |-> "GenericBFSWalk", err |-> "nil", id |-> "", res |-> visits]

GenericOrderedWalk ==
    /\ d' = d
    /\ \E visits \in GenericOrderedWalkOf(d) :
          last' = [op |-> "GenericOrderedWalk", err |-> "nil", id |-> "", res |-> visits]

NextGeneric ==
    \/ GenericDFSWalk
    \/ GenericBFSWalk
    \/ GenericOrderedWalk

SpecGeneric == InitVisit /\ [][NextGeneric]_vars

(***************************************************************************)
(* Vocabulary of the properties: the graph read off the state, without     *)
(* any of the engine's own algorithms.                                     *)
(***************************************************************************)
\* the edge relation held by the outbound map, and by the inbound map
OutRel(g) == {<<a, b>> \in (DOMAIN g.outboundEdge) \X (UNION {g.outboundEdge[k] : k \in DOMAIN g.outboundEdge}) :
                 b \in g.outboundEdge[a]}

InRel(g) == {<<a, b>> \in (UNION {g.inboundEdge[k] : k \in DOMAIN g.inboundEdge}) \X (DOMAIN g.inboundEdge) :
                 a \in g.inboundEdge[b]}

\* transitive closure of a finite relation
RECURSIVE Closure(_)
Closure(R) ==
    LET Step == R \cup {<<pq[1][1], pq[2][2]>> : pq \in {x \in R \X R : x[1][2] = x[2][1]}}
    IN  IF Step = R THEN R ELSE Closure(Step)

\* keys reachable from k by one or more outbound edges; keys that reach k
DescendantsOf(g, k) == {e[2] : e \in {x \in Closure(OutRel(g)) : x[1] = k}}

AncestorsOf(g, k) == {e[1] : e \in {x \in Closure(InRel(g)) : x[2] = k}}

\* the live ids other than ""
LiveIds(g) == (DOMAIN g.vertexValues) \ {""}

KeyOf(g, id) == VertexHashFunc(g.options, g.vertexValues[id])

MutationOps == {"AddVertex", "AddVertexByID", "AddEdge", "DeleteEdge", "DeleteVertex"}

(***************************************************************************)
(* C1.  After any sequence of calls the edge set has no directed cycle:    *)
(* no key is reachable from itself along outbound edges.                   *)
(***************************************************************************)
C1_Acyclic == \A e \in Closure(OutRel(d)) : e[1] # e[2]

\* an edge that would have closed a cycle over a path of two edges was refused
C1_Witness ==
    /\ last.op = "AddEdge" /\ last.err = "EdgeLoopError"
    /\ \E a \in DOMAIN d.vertices, b \in DOMAIN d.vertices, c \in DOMAIN d.vertices :
          {<<a, b>>, <<b, c>>} \subseteq OutRel(d) /\ a # c

(***************************************************************************)
(* C2.  For live distinct ids src, dst without an edge src->dst, AddEdge   *)
(* returns EdgeLoopError iff src is reachable from dst along outbound      *)
(* edges; otherwise it succeeds and the edge exists afterwards.            *)
(***************************************************************************)
C2_AddEdgeLoopIff ==
    \A s \in DOMAIN d.vertexValues, t \in DOMAIN d.vertexValues :
        (s # t /\ <<KeyOf(d, s), KeyOf(d, t)>> \notin OutRel(d))
        => LET r == addEdge(d, s, t) IN
           IF KeyOf(d, s) \in DescendantsOf(d, KeyOf(d, t))
           THEN r.err = "EdgeLoopError"
           ELSE r.err = "nil" /\ <<KeyOf(d, s), KeyOf(d, t)>> \in OutRel(r.g)

\* the same statement over the live ids other than "": it fails for no other id
C2_NonEmptyIds ==
    \A s \in LiveIds(d), t \in LiveIds(d) :
        (s # t /\ <<KeyOf(d, s), KeyOf(d, t)>> \notin OutRel(d))
        => LET r == addEdge(d, s, t) IN
           IF KeyOf(d, s) \in DescendantsOf(d, KeyOf(d, t))
           THEN r.err = "EdgeLoopError"
           ELSE r.err = "nil" /\ <<KeyOf(d, s), KeyOf(d, t)>> \in OutRel(r.g)

(***************************************************************************)
(* C3.  In every reachable state b is in outbound[a] iff a is in           *)
(* inbound[b].                                                             *)
(***************************************************************************)
C3_AdjacencySymmetric == OutRel(d) = InRel(d)

\* a transitive reduction has just removed an edge (it flushes the caches
\* only then) and edges remain
C3_Witness ==
    /\ last.op = "ReduceTransitively"
    /\ d.descendantsCache = EmptyMap
    /\ Cardinality(OutRel(d)) >= 2

(***************************************************************************)
(* C4.  Every entry present in the descendants cache for a live key k is   *)
(* the set of keys reachable from k by one or more outbound edges, and     *)
(* every present ancestors entry is the set of keys that reach k.          *)
(***************************************************************************)
C4_CacheCorrect ==
    /\ \A k \in (DOMAIN d.descendantsCache) \cap (DOMAIN d.vertices) :
          d.descendantsCache[k] = DescendantsOf(d, k)
    /\ \A k \in (DOMAIN d.ancestorsCache) \cap (DOMAIN d.vertices) :
          d.ancestorsCache[k] = AncestorsOf(d, k)

\* an edge was added and entries survive the invalidation in both caches,
\* one of them non-empty
C4_Witness ==
    /\ last.op = "AddEdge" /\ last.err = "nil"
    /\ \E k \in DOMAIN d.descendantsCache : d.descendantsCache[k] # {}
    /\ d.ancestorsCache # EmptyMap

(***************************************************************************)
(* C5.  GetDescendants(id) and GetAncestors(id) return exactly the current *)
(* transitive closure of the children (parents) of id, whatever mutation   *)
(* came before and whether or not the cache was populated.                 *)
(***************************************************************************)
C5_QueryIsClosure ==
    /\ (last.op = "GetDescendants" /\ last.err = "nil")
          => last.res = [id \in {d.vertices[k] : k \in DescendantsOf(d, KeyOf(d, last.id))}
                           |-> d.vertexValues[id]]
    /\ (last.op = "GetAncestors" /\ last.err = "nil")
          => last.res = [id \in {d.vertices[k] : k \in AncestorsOf(d, KeyOf(d, last.id))}
                           |-> d.vertexValues[id]]

\* a query returned two descendants while a third vertex keeps a cache entry
C5_Witness ==
    /\ last.op = "GetDescendants" /\ last.err = "nil"
    /\ Cardinality(DOMAIN last.res) = 2
    /\ Cardinality(DOMAIN d.descendantsCache) = 3

(***************************************************************************)
(* C6.  A mutation that returns an error leaves both indices, both         *)
(* adjacency maps and both cache maps exactly as they were.                *)
(***************************************************************************)
C6_ErrorLeavesGraph ==
    [][(last'.op \in MutationOps /\ last'.err # "nil") => d' = d]_vars

\* a refused DeleteEdge on a graph whose caches hold entries
C6_Witness ==
    /\ last.op = "DeleteEdge" /\ last.err = "EdgeUnknownError"
    /\ d.descendantsCache # EmptyMap /\ d.ancestorsCache # EmptyMap

(***************************************************************************)
(* C7.  AddEdge reports its errors in a fixed priority order.              *)
(***************************************************************************)
\* the error the claimed order yields: IDEmptyError if either id is empty,
\* then IDUnknownError if either is not live, then the three edge errors
ClaimedAddEdgeErr(g, s, t) ==
    IF s = "" \/ t = "" THEN "IDEmptyError"
    ELSE IF s \notin DOMAIN g.vertexValues \/ t \notin DOMAIN g.vertexValues
         THEN "IDUnknownError"
    ELSE IF s = t THEN "SrcDstEqualError"
    ELSE IF <<KeyOf(g, s), KeyOf(g, t)>> \in OutRel(g) THEN "EdgeDuplicateError"
    ELSE IF KeyOf(g, s) \in DescendantsOf(g, KeyOf(g, t)) THEN "EdgeLoopError"
    ELSE "nil"

\* C7 as stated: every AddEdge returns the first error of the claimed order
C7_ClaimedOrder ==
    \A s \in IdPool, t \in IdPool : addEdge(d, s, t).err = ClaimedAddEdgeErr(d, s, t)

\* the order the calls follow: src is validated (empty, then unknown) before
\* dst is looked at, then the three edge errors
AmendedAddEdgeErr(g, s, t) ==
    IF s = "" THEN "IDEmptyError"
    ELSE IF s \notin DOMAIN g.vertexValues THEN "IDUnknownError"
    ELSE IF t = "" THEN "IDEmptyError"
    ELSE IF t \notin DOMAIN g.vertexValues THEN "IDUnknownError"
    ELSE IF s = t THEN "SrcDstEqualError"
    ELSE IF <<KeyOf(g, s), KeyOf(g, t)>> \in OutRel(g) THEN "EdgeDuplicateError"
    ELSE IF KeyOf(g, s) \in DescendantsOf(g, KeyOf(g, t)) THEN "EdgeLoopError"
    ELSE "nil"

\* C7 amended: AddEdge returns the first error of the order srcID empty,
\* srcID unknown, dstID empty, dstID unknown, SrcDstEqual, EdgeDuplicate,
\* EdgeLoop
C7_SrcBeforeDst ==
    \A s \in IdPool, t \in IdPool : addEdge(d, s, t).err = AmendedAddEdgeErr(d, s, t)

\* AddEdge answered IDUnknownError on a graph with two live vertices, where
\* an unknown srcID can meet an empty, a live or an unknown dstID
C7_Witness ==
    /\ last.op = "AddEdge" /\ last.err = "IDUnknownError"
    /\ Cardinality(LiveIds(d)) = 2

(***************************************************************************)
(* C8.  AddVertexByID(id, v) returns VertexDuplicateError when the key of  *)
(* v is live (checked first), else IDDuplicateError when id is live, else  *)
(* inserts the vertex into both indices and changes no adjacency entry.    *)
(***************************************************************************)
KeyIsLive(g, v) ==
    \E id \in DOMAIN g.vertexValues :
        VertexHashFunc(g.options, g.vertexValues[id]) = VertexHashFunc(g.options, v)

C8_AddVertexByID ==
    \A iv \in VertexInputs :
        LET r == addVertexByID(d, iv[1], iv[2]) IN
        IF KeyIsLive(d, iv[2])
        THEN r.err = "VertexDuplicateError" /\ r.g = d
        ELSE IF iv[1] \in DOMAIN d.vertexValues
        THEN r.err = "IDDuplicateError" /\ r.g = d
        ELSE /\ r.err = "nil"
             /\ DOMAIN r.g.vertexValues = (DOMAIN d.vertexValues) \cup {iv[1]}
             /\ r.g.vertexValues[iv[1]] = iv[2]
             /\ \A id \in DOMAIN d.vertexValues : r.g.vertexValues[id] = d.vertexValues[id]
             /\ DOMAIN r.g.vertices =
                    (DOMAIN d.vertices) \cup {VertexHashFunc(d.options, iv[2])}
             /\ r.g.vertices[VertexHashFunc(d.options, iv[2])] = iv[1]
             /\ \A k \in DOMAIN d.vertices : r.g.vertices[k] = d.vertices[k]
             /\ r.g.outboundEdge = d.outboundEdge
             /\ r.g.inboundEdge = d.inboundEdge

\* a payload was refused as a duplicate although no live vertex holds the
\* same payload: its key collides under the custom policy
C8_Witness ==
    /\ last.op = "AddVertexByID" /\ last.err = "VertexDuplicateError"
    /\ d.options = "custom"
    /\ Cardinality(DOMAIN d.vertexValues) = 1
    /\ OutRel(d) = {}

(***************************************************************************)
(* C9.  The key->id map and the id->payload map describe the same live     *)
(* vertex set one-to-one: as many entries in each, every live id is the    *)
(* value of exactly one key, every key maps to a live id.                  *)
(***************************************************************************)
C9_IndexBijection ==
    /\ Cardinality(DOMAIN d.vertices) = Cardinality(DOMAIN d.vertexValues)
    /\ \A id \in DOMAIN d.vertexValues :
          Cardinality({k \in DOMAIN d.vertices : d.vertices[k] = id}) = 1
    /\ \A k \in DOMAIN d.vertices : d.vertices[k] \in DOMAIN d.vertexValues

\* a vertex was deleted from a graph that keeps two others
C9_Witness ==
    /\ last.op = "DeleteVertex" /\ last.err = "nil"
    /\ Cardinality(DOMAIN d.vertices) = 2

(***************************************************************************)
(* C10.  No live vertex ever has the empty string as its id.               *)
(***************************************************************************)
C10_NoEmptyId == "" \notin DOMAIN d.vertexValues

(***************************************************************************)
(* C11.  After a successful DeleteVertex(id) the key of the vertex is in   *)
(* neither index, has no adjacency entry of its own and is in no outbound  *)
(* or inbound set; so in every reachable state both endpoints of every     *)
(* edge are live keys.                                                     *)
(***************************************************************************)
C11_DeleteVertexRemovesAll ==
    /\ \A id \in IdPool :
          LET r == deleteVertex(d, id) IN
          r.err = "nil" =>
             LET k == KeyOf(d, id) IN
             /\ id \notin DOMAIN r.g.vertexValues
             /\ k \notin DOMAIN r.g.vertices
             /\ k \notin DOMAIN r.g.outboundEdge
             /\ k \notin DOMAIN r.g.inboundEdge
             /\ \A x \in DOMAIN r.g.outboundEdge : k \notin r.g.outboundEdge[x]
             /\ \A x \in DOMAIN r.g.inboundEdge : k \notin r.g.inboundEdge[x]
    /\ \A e \in OutRel(d) \cup InRel(d) :
          e[1] \in DOMAIN d.vertices /\ e[2] \in DOMAIN d.vertices

\* a vertex with an incident edge was deleted (its neighbour keeps an empty
\* set) and an edge between the two others remains
C11_Witness ==
    /\ last.op = "DeleteVertex" /\ last.err = "nil"
    /\ OutRel(d) # {}
    /\ \/ \E x \in DOMAIN d.outboundEdge : d.outboundEdge[x] = {}
       \/ \E x \in DOMAIN d.inboundEdge : d.inboundEdge[x] = {}

\* DeleteEdge(s, t) removes exactly the edge s->t when it exists, and
\* answers EdgeUnknownError when it does not
DeleteEdgeExact(g, s, t) ==
    LET r == deleteEdge(g, s, t)
        e == <<KeyOf(g, s), KeyOf(g, t)>>
    IN  IF e \in OutRel(g)
        THEN /\ r.err = "nil"
             /\ OutRel(r.g) = OutRel(g) \ {e}
             /\ InRel(r.g) = InRel(g) \ {e}
             /\ r.g.vertices = g.vertices
             /\ r.g.vertexValues = g.vertexValues
             /\ getOrder(r.g) = getOrder(g)
             /\ getSize(r.g) = getSize(g) - 1
        ELSE r.err = "EdgeUnknownError" /\ r.g = g

(***************************************************************************)
(* C12.  A successful DeleteEdge(src, dst) removes exactly the edge        *)
(* src->dst: the vertices and every other edge stay, the order stays, the  *)
(* size decreases by one; on an absent edge between live distinct ids it   *)
(* returns EdgeUnknownError.                                               *)
(***************************************************************************)
C12_DeleteEdgeExact ==
    \A s \in DOMAIN d.vertexValues, t \in DOMAIN d.vertexValues :
        s # t => DeleteEdgeExact(d, s, t)

\* the same statement over the live ids other than "": it fails for no other id
C12_NonEmptyIds ==
    \A s \in LiveIds(d), t \in LiveIds(d) : s # t => DeleteEdgeExact(d, s, t)

\* the edges of a graph as pairs of ids
IdEdges(g) == {<<g.vertices[e[1]], g.vertices[e[2]]>> : e \in OutRel(g)}

(***************************************************************************)
(* C13.  For every DAG G, reading back the document written from G         *)
(* succeeds and yields the same ids, the same payload under each id and    *)
(* the same edges.                                                         *)
(***************************************************************************)
C13_Roundtrip ==
    last.op = "UnmarshalMarshalled"
    => /\ last.err = "nil"
       /\ last.res.vertexValues = d.vertexValues
       /\ IdEdges(last.res) = IdEdges(d)

\* what is wrong with the i-th listed vertex given the ones before it, and
\* with the j-th listed edge given the listed vertices and the edges before it
VertexDefect(doc, options, i) ==
    IF \E k \in 1..(i - 1) :
          VertexHashFunc(options, doc.vs[k].v) = VertexHashFunc(options, doc.vs[i].v)
    THEN "VertexDuplicateError"
    ELSE IF \E k \in 1..(i - 1) : doc.vs[k].i = doc.vs[i].i THEN "IDDuplicateError"
    ELSE "nil"

EdgeDefect(doc, j) ==
    LET ids == {doc.vs[i].i : i \in DOMAIN doc.vs}
        prior == {<<doc.es[k].s, doc.es[k].d>> : k \in 1..(j - 1)}
        e == doc.es[j]
    IN  IF e.s = "" THEN "IDEmptyError"
        ELSE IF e.s \notin ids THEN "IDUnknownError"
        ELSE IF e.d = "" THEN "IDEmptyError"
        ELSE IF e.d \notin ids THEN "IDUnknownError"
        ELSE IF e.s = e.d THEN "SrcDstEqualError"
        ELSE IF <<e.s, e.d>> \in prior THEN "EdgeDuplicateError"
        ELSE IF <<e.d, e.s>> \in Closure(prior) THEN "EdgeLoopError"
        ELSE "nil"

Min(S) == CHOOSE x \in S : \A y \in S : x <= y

\* the error of the first defect of a document, vertices before edges
ExpectedReadErr(doc, options) ==
    LET badVs == {i \in DOMAIN doc.vs : VertexDefect(doc, options, i) # "nil"}
        badEs == {j \in DOMAIN doc.es : EdgeDefect(doc, j) # "nil"}
    IN  IF badVs # {} THEN VertexDefect(doc, options, Min(badVs))
        ELSE IF badEs # {} THEN EdgeDefect(doc, Min(badEs))
        ELSE "nil"

(***************************************************************************)
(* C14.  A reader inserts the listed vertices, then the listed edges, and  *)
(* aborts with the error of the mutation and without a graph at the first  *)
(* duplicate key, duplicate id, unknown endpoint, self-loop, duplicate     *)
(* edge or edge that would close a cycle; a document without any of these  *)
(* yields the graph of the listed vertices and edges.                      *)
(***************************************************************************)
C14_ReadAborts ==
    [][LET doc == last.res IN
          (last.op = "NewGenericDAG" /\ last'.op \in {"UnmarshalGenericJSON", "UnmarshalJSON"})
          => /\ last'.err = ExpectedReadErr(doc, d.options)
             /\ IF last'.err = "nil"
                THEN /\ DOMAIN d'.vertexValues = {doc.vs[i].i : i \in DOMAIN doc.vs}
                     /\ \A i \in DOMAIN doc.vs : d'.vertexValues[doc.vs[i].i] = doc.vs[i].v
                     /\ IdEdges(d') = {<<doc.es[j].s, doc.es[j].d>> : j \in DOMAIN doc.es}
                ELSE d' = d]_vars

\* a reader met an edge closing a cycle, after the vertices and an edge
\* were accepted
C14_Witness ==
    /\ last.op = "UnmarshalGenericJSON" /\ last.err = "EdgeLoopError"
    /\ d.vertexValues = EmptyMap

\* the walk has returned
OrderedWalkDone == last.op = "GenericOrderedWalk" /\ last.err = "nil"

\* the visitor was called exactly once for every vertex, parents first
VisitedOnceInOrder ==
    LET visits == last.res.visits IN
    /\ {visits[i] : i \in DOMAIN visits} = DOMAIN d.vertexValues
    /\ Len(visits) = Cardinality(DOMAIN d.vertexValues)
    /\ \A e \in IdEdges(d) :
          \E i \in DOMAIN visits, j \in DOMAIN visits :
              visits[i] = e[1] /\ visits[j] = e[2] /\ i < j

(***************************************************************************)
(* C15.  On every DAG the ordered walk terminates, having called the       *)
(* visitor exactly once for every vertex, and for every edge a->b the      *)
(* visit of a precedes the visit of b.                                     *)
(***************************************************************************)
C15_OrderedWalk ==
    /\ <>OrderedWalkDone
    /\ [](OrderedWalkDone => VisitedOnceInOrder)

\* the walk returned on a graph of DagOrder vertices in which a vertex is
\* the child of a vertex and of one of its children
C15_Witness ==
    /\ OrderedWalkDone
    /\ Len(last.res.visits) = DagOrder
    /\ \E a \in DOMAIN d.vertices, b \in DOMAIN d.vertices, c \in DOMAIN d.vertices :
          {<<a, b>>, <<b, c>>, <<a, c>>} \subseteq OutRel(d)

(***************************************************************************)
(* C16.  ReduceTransitively never changes reachability: every vertex has   *)
(* the same descendants and the same ancestors after the call as before,   *)
(* and the vertex set is unchanged.                                        *)
(***************************************************************************)
C16_ReducePreservesReachability ==
    [][last'.op = "ReduceTransitively"
       => /\ \A k \in DOMAIN d.vertices :
                /\ DescendantsOf(d', k) = DescendantsOf(d, k)
                /\ AncestorsOf(d', k) = AncestorsOf(d, k)
          /\ d'.vertices = d.vertices
          /\ d'.vertexValues = d.vertexValues]_vars

\* a reduction removed edges (it flushes the caches only then) from a graph
\* of DagOrder vertices and left a path through all of them
C16_Witness ==
    /\ last.op = "ReduceTransitively"
    /\ d.descendantsCache = EmptyMap
    /\ Cardinality(DOMAIN d.vertices) = DagOrder
    /\ \E k \in DOMAIN d.vertices : Cardinality(DescendantsOf(d, k)) = DagOrder - 1

\* the edges a->b of g for which b is reachable from a through another
\* child of a
RedundantEdges(g) ==
    {e \in OutRel(g) :
        \E c \in DOMAIN g.vertices :
            c # e[2] /\ <<e[1], c>> \in OutRel(g) /\ <<c, e[2]>> \in Closure(OutRel(g))}

(***************************************************************************)
(* C17.  ReduceTransitively removes exactly the redundant edges: an edge   *)
(* a->b is absent afterwards iff b was reachable from a through another    *)
(* child of a, and no remaining edge has an alternative path.              *)
(***************************************************************************)
C17_ReduceExact ==
    [][last'.op = "ReduceTransitively"
       => /\ OutRel(d') = OutRel(d) \ RedundantEdges(d)
          /\ RedundantEdges(d') = {}]_vars

\* a reduction removed the three redundant edges of the complete graph
C17_Witness ==
    /\ last.op = "ReduceTransitively"
    /\ d.descendantsCache = EmptyMap
    /\ Cardinality(DOMAIN d.vertices) = DagOrder
    /\ Cardinality(OutRel(d)) = DagOrder - 1
    /\ Cardinality(Closure(OutRel(d))) = (DagOrder * (DagOrder - 1)) \div 2

(***************************************************************************)
(* C18.  ReduceTransitively is idempotent: applied a second time right     *)
(* after the first it changes neither the vertex set nor the edge set.     *)
(***************************************************************************)
C18_ReduceIdempotent ==
    LET once == reduceTransitively(d)
        twice == reduceTransitively(once)
    IN  /\ twice.vertices = once.vertices
        /\ twice.vertexValues = once.vertexValues
        /\ OutRel(twice) = OutRel(once)
        /\ InRel(twice) = InRel(once)

\* a reduction found nothing to remove in a graph of DagOrder vertices whose
\* caches had been flushed, as a reduction that removes edges leaves them:
\* it leaves the descendants cache filled for every vertex
C18_Witness ==
    /\ last.op = "ReduceTransitively"
    /\ d.ancestorsCache = EmptyMap
    /\ Cardinality(DOMAIN d.vertices) = DagOrder
    /\ DOMAIN d.descendantsCache = DOMAIN d.vertices
    /\ Cardinality(OutRel(d)) = DagOrder - 1
    /\ RedundantEdges(d) = {}

(***************************************************************************)
(* C19.  Copy of any DAG succeeds and returns a graph with the same ids,   *)
(* the same payload under each id and the same edges.                      *)
(***************************************************************************)
C19_CopyEqual ==
    last.op = "Copy"
    => /\ last.err = "nil"
       /\ last.res.g.vertexValues = d.vertexValues
       /\ IdEdges(last.res.g) = IdEdges(d)

\* a graph of DagOrder vertices with two roots that have a child in common,
\* itself with a child, was copied
C19_Witness ==
    /\ last.op = "Copy" /\ last.err = "nil"
    /\ Cardinality(DOMAIN d.vertices) = DagOrder
    /\ Cardinality(getRoots(d)) = 2
    /\ \E c \in DOMAIN d.vertices :
          /\ \A r \in getRoots(d) : <<r, c>> \in OutRel(d)
          /\ \E x \in DOMAIN d.vertices : <<c, x>> \in OutRel(last.res.g)

ConeIds(g, id, asc) ==
    {id} \cup {g.vertices[k] : k \in IF asc THEN AncestorsOf(g, KeyOf(g, id))
                                     ELSE DescendantsOf(g, KeyOf(g, id))}

\* sub holds exactly the vertices ids of g, with their payloads, and the
\* edges of g between them
InducedOn(sub, g, ids) ==
    /\ sub.vertexValues = [i \in ids |-> g.vertexValues[i]]
    /\ IdEdges(sub) = {e \in IdEdges(g) : e[1] \in ids /\ e[2] \in ids}
    /\ InRel(sub) = OutRel(sub)

(***************************************************************************)
(* C21.  GetDescendantsGraph(id) of a live non-empty id returns a new      *)
(* graph that holds exactly id and its descendants, under the same ids     *)
(* and payloads, and exactly the source edges between them; id is its only *)
(* root and is returned as the seed id.  GetAncestorsGraph(id) is          *)
(* symmetric, with id as the only leaf.                                    *)
(***************************************************************************)
C21_Subgraph ==
    /\ last.op \in {"GetDescendantsGraph", "GetAncestorsGraph"}
       => (last.err = "nil" <=> last.id \in LiveIds(d))
    /\ (last.op = "GetDescendantsGraph" /\ last.err = "nil")
       => /\ InducedOn(last.res.g, d, ConeIds(d, last.id, FALSE))
          /\ getRootIDs(last.res.g) = {last.id}
          /\ last.res.id = last.id
    /\ (last.op = "GetAncestorsGraph" /\ last.err = "nil")
       => /\ InducedOn(last.res.g, d, ConeIds(d, last.id, TRUE))
          /\ {last.res.g.vertices[k] : k \in getLeaves(last.res.g)} = {last.id}
          /\ last.res.id = last.id

\* the descendants graph of a vertex that has a parent, a sibling cone left
\* out, and a descendant reached along two paths
C21_Witness ==
    /\ last.op = "GetDescendantsGraph" /\ last.err = "nil"
    /\ Cardinality(DOMAIN last.res.g.vertexValues) = 3
    /\ Cardinality(IdEdges(last.res.g)) = 3
    /\ Cardinality(DOMAIN d.vertexValues) = DagOrder
    /\ AncestorsOf(d, KeyOf(d, last.id)) # {}

WalkerCancelled == Walking /\ last.res.cpc = "cancelled"

WalkerReleased == Walking /\ last.res.pc = "done" /\ last.res.closed /\ last.res.readers = 0

(***************************************************************************)
(* C22.  Once the consumer of a walker has raised the signal and stopped   *)
(* receiving, the walker eventually closes the stream with its read lock   *)
(* released, and a mutation waiting for the graph lock eventually          *)
(* proceeds.                                                               *)
(***************************************************************************)
C22_CancelReleases ==
    /\ WalkerCancelled ~> WalkerReleased
    /\ (WalkerCancelled /\ last.res.mpc = "waiting") ~> (Walking /\ last.res.mpc = "done")

\* what does hold: a walker that is not yet committed to a send when the
\* signal is raised is released
C22_CancelBeforeSelect ==
    (WalkerCancelled /\ last.res.pc # "send") ~> WalkerReleased

\* the signal was raised while the goroutine was blocked in its send
C22_StuckInSend ==
    WalkerCancelled /\ last.res.pc = "send" /\ last.res.readers = 1 /\ last.res.mpc = "waiting"

\* the length of a shortest path of R from key k to key x (x reachable)
RECURSIVE DistRec(_, _, _, _)
DistRec(R, frontier, x, n) ==
    IF x \in frontier \/ frontier = {} THEN n
    ELSE DistRec(R, {e[2] : e \in {y \in R : y[1] \in frontier}}, x, n + 1)

Dist(R, k, x) == DistRec(R, {k}, x, 0)

\* seq lists every id of the key set cone once and nothing else, never a
\* vertex before one that is nearer to the seed
OrderedByDistance(g, R, k, cone, seq) ==
    /\ {seq[i] : i \in DOMAIN seq} = {g.vertices[x] : x \in cone}
    /\ Len(seq) = Cardinality(cone)
    /\ \A i \in DOMAIN seq, j \in DOMAIN seq :
          i < j => Dist(R, k, KeyOf(g, seq[i])) <= Dist(R, k, KeyOf(g, seq[j]))

(***************************************************************************)
(* C23.  GetOrderedDescendants(id) returns every descendant of id once     *)
(* and no other id, in non-decreasing order of the shortest distance from  *)
(* id along outbound edges; its ids are those GetDescendants(id) returns.  *)
(* GetOrderedAncestors(id) is symmetric along inbound edges.               *)
(***************************************************************************)
C23_OrderedRelatives ==
    /\ (last.op = "GetOrderedDescendants" /\ last.err = "nil")
       => /\ OrderedByDistance(d, OutRel(d), KeyOf(d, last.id),
                               DescendantsOf(d, KeyOf(d, last.id)), last.res)
          /\ {last.res[i] : i \in DOMAIN last.res} = DOMAIN GetDescendantsOf(d, last.id).res
    /\ (last.op = "GetOrderedAncestors" /\ last.err = "nil")
       => /\ OrderedByDistance(d, {<<e[2], e[1]>> : e \in InRel(d)}, KeyOf(d, last.id),
                               AncestorsOf(d, KeyOf(d, last.id)), last.res)
          /\ {last.res[i] : i \in DOMAIN last.res} = DOMAIN GetAncestorsOf(d, last.id).res

\* the ordered descendants of a vertex with a descendant at distance 2 that
\* is the child of two of its children
C23_Witness ==
    /\ last.op = "GetOrderedDescendants" /\ last.err = "nil"
    /\ Len(last.res) = 3
    /\ \E x \in DescendantsOf(d, KeyOf(d, last.id)) :
          /\ Dist(OutRel(d), KeyOf(d, last.id), x) = 2
          /\ Cardinality(MapGet(d.inboundEdge, x)) = 2

\* the ids of S in ascending order
Ascending(S) ==
    CHOOSE s \in [1..Cardinality(S) -> S] :
        \A i \in DOMAIN s, j \in DOMAIN s : i < j => IdRank(s[i]) < IdRank(s[j])

ChildIds(g, id) == {e[2] : e \in {x \in IdEdges(g) : x[1] = id}}

RootIds(g) == (DOMAIN g.vertexValues) \ {e[2] : e \in IdEdges(g)}

\* seq lists every vertex of g once
EachVertexOnce(g, seq) ==
    /\ {seq[i] : i \in DOMAIN seq} = DOMAIN g.vertexValues
    /\ Len(seq) = Cardinality(DOMAIN g.vertexValues)

\* pre-order of the recursive depth-first search: the vertices of todo in
\* turn, each followed by the search of its children, seen ones skipped
RECURSIVE PreOrder(_, _, _)
PreOrder(g, todo, seen) ==
    IF todo = <<>> THEN seen
    ELSE IF \E i \in DOMAIN seen : seen[i] = Head(todo) THEN PreOrder(g, Tail(todo), seen)
    ELSE PreOrder(g, Tail(todo),
                  PreOrder(g, Ascending(ChildIds(g, Head(todo))), Append(seen, Head(todo))))

(***************************************************************************)
(* C24.  DFSWalk calls the visitor once per vertex, in the pre-order of a  *)
(* depth-first search that takes the roots in ascending id order and the   *)
(* children of each vertex in ascending id order and skips the vertices    *)
(* already visited.                                                        *)
(***************************************************************************)
C24_DFSPreOrder ==
    last.op = "DFSWalk"
    => /\ EachVertexOnce(d, last.res)
       /\ last.res = PreOrder(d, Ascending(RootIds(d)), <<>>)

\* a walk in which a vertex with a smaller id than its parent is reached
\* again from a second parent
C24_Witness ==
    /\ last.op = "DFSWalk" /\ Len(last.res) = DagOrder
    /\ \E e \in IdEdges(d) : IdRank(e[2]) < IdRank(e[1])
    /\ \E x \in DOMAIN d.vertices : Cardinality(MapGet(d.inboundEdge, x)) = 2
    /\ \E i \in 1..(DagOrder - 1) : IdRank(last.res[i]) > IdRank(last.res[i + 1])

\* the first occurrences of a sequence, in order
RECURSIVE FirstOccurrences(_, _)
FirstOccurrences(seq, acc) ==
    IF seq = <<>> THEN acc
    ELSE FirstOccurrences(Tail(seq),
                          IF \E i \in DOMAIN acc : acc[i] = Head(seq) THEN acc ELSE Append(acc, Head(seq)))

RECURSIVE Concat(_)
Concat(seqs) == IF seqs = <<>> THEN <<>> ELSE Head(seqs) \o Concat(Tail(seqs))

\* the queue contents of a breadth-first search, generation by generation:
\* the roots, then the children of each vertex of the generation before
RECURSIVE Generations(_, _)
Generations(g, level) ==
    IF level = <<>> THEN <<>>
    ELSE level \o Generations(g, Concat([i \in DOMAIN level |-> Ascending(ChildIds(g, level[i]))]))

(***************************************************************************)
(* C25.  BFSWalk calls the visitor once per vertex, in the order of first  *)
(* dequeue from a FIFO queue that starts with the roots in ascending id    *)
(* order and receives the children of every dequeued vertex in ascending   *)
(* id order.                                                               *)
(***************************************************************************)
C25_BFSOrder ==
    last.op = "BFSWalk"
    => /\ EachVertexOnce(d, last.res)
       /\ last.res = FirstOccurrences(Generations(d, Ascending(RootIds(d))), <<>>)

\* a walk of a graph in which a vertex is enqueued by two parents of
\* different depth
C25_Witness ==
    /\ last.op = "BFSWalk" /\ Len(last.res) = DagOrder
    /\ \E e \in IdEdges(d) : IdRank(e[2]) < IdRank(e[1])
    /\ \E a \in DOMAIN d.vertices, b \in DOMAIN d.vertices, c \in DOMAIN d.vertices :
          {<<a, b>>, <<b, c>>, <<a, c>>} \subseteq OutRel(d)

\* the ids of the cone of id, and the parents of v in it, read off the edges
FlowConeIds(g, id) == ConeIds(g, id, FALSE)

InConeParents(g, id, v) == {e[1] : e \in {x \in IdEdges(g) : x[2] = v}} \cap FlowConeIds(g, id)

FlowCalled(v) == last.res.st[v] \in {"running", "returned"}

(***************************************************************************)
(* C26.  In DescendantsFlow the callback of a vertex v of the cone is      *)
(* started only when the callback of every parent of v in the cone has     *)
(* returned, and it is passed exactly one result for each such parent, the *)
(* one that parent returned; the start vertex is passed the seed inputs.   *)
(***************************************************************************)
C26_FlowParents ==
    (last.op = "DescendantsFlow" /\ last.err \in {"running", "nil"})
    => \A v \in FlowConeIds(d, last.id) :
          FlowCalled(v)
          => IF v = last.id THEN last.res.args[v] = last.res.inputs
             ELSE LET ps == InConeParents(d, last.id, v)
                      args == last.res.args[v]
                  IN  /\ \A p \in ps : last.res.st[p] = "returned"
                      /\ Len(args) = Cardinality(ps)
                      /\ {args[i] : i \in DOMAIN args} = {last.res.out[p] : p \in ps}
                      /\ {args[i].id : i \in DOMAIN args} = ps

\* the callback of a vertex with two parents in the cone and one outside
\* it was started
C26_Witness ==
    /\ Flowing
    /\ \E v \in last.res.cone :
          /\ last.res.st[v] = "running"
          /\ Cardinality(InConeParents(d, last.id, v)) = 2
          /\ Cardinality(dagGetParents(d, v)) = 3

FlowReturned == last.op = "DescendantsFlow" /\ last.err = "nil"

\* the vertices of the cone of id that have no child
FlowLeafIds(g, id) == {v \in FlowConeIds(g, id) : ChildIds(g, v) = {}}

\* what the callback of the model yields for v, computed from the graph
\* alone: one more than the sum over the in-cone parents (the seed inputs
\* for the start vertex), an error at the vertices of failing
RECURSIVE SumOver(_, _)
SumOver(f, S) ==
    IF S = {} THEN 0
    ELSE LET x == CHOOSE y \in S : TRUE IN f[x] + SumOver(f, S \ {x})

RECURSIVE FlowValue(_, _, _, _, _)
FlowValue(g, id, seedSum, failing, v) ==
    IF v \in failing THEN 0
    ELSE IF v = id THEN seedSum + 1
    ELSE LET ps == InConeParents(g, id, v)
         IN  SumOver([p \in ps |-> FlowValue(g, id, seedSum, failing, p)], ps) + 1

(***************************************************************************)
(* C27.  DescendantsFlow returns exactly one result for each vertex of     *)
(* the cone that has no child (one for the start vertex when it has no     *)
(* descendant) and none for any other vertex; each is what the callback    *)
(* of that vertex returned, value or captured error, so an error at one    *)
(* vertex keeps no other leaf's result back.                               *)
(***************************************************************************)
C27_FlowResults ==
    FlowReturned
    => LET rs == last.res.results
           leaves == FlowLeafIds(d, last.id)
       IN  /\ Len(rs) = Cardinality(leaves)
           /\ {rs[i].id : i \in DOMAIN rs} = leaves
           /\ \A i \in DOMAIN rs :
                 /\ rs[i] = last.res.out[rs[i].id]
                 /\ rs[i].error = (rs[i].id \in last.res.failing)
                 /\ ~rs[i].error
                    => rs[i].result = FlowValue(d, last.id, flowSum(last.res.inputs),
                                                last.res.failing, rs[i].id)

\* a flow with two leaves, one of them failing, and an inner vertex
C27_Witness ==
    /\ FlowReturned
    /\ Len(last.res.results) = 2
    /\ Cardinality(last.res.cone) = DagOrder
    /\ \E i \in {1, 2} : last.res.results[i].error /\ ~last.res.results[3 - i].error

\* d is the diamond a->b, a->c, b->e, c->e and the flow started at a with
\* the seed input (a, SeedValue) and no failing callback has returned
DiamondFlow ==
    /\ FlowReturned
    /\ DOMAIN d.vertexValues = {"a", "b", "c", "e"}
    /\ IdEdges(d) = {<<"a", "b">>, <<"a", "c">>, <<"b", "e">>, <<"c", "e">>}
    /\ last.id = "a"
    /\ last.res.inputs = <<[id |-> "a", result |-> SeedValue, error |-> FALSE]>>
    /\ last.res.failing = {}

C29_NilRefused ==
    [][(last'.op \in {"AddVertex", "AddVertexByID"} /\ last'.res = <<NilPayload>>)
       => (last'.err = "VertexNilError" /\ d' = d)]_vars

\* what the generic graph does instead: the nil payload is a payload like
\* any other, inserted once and then refused as a duplicate
C29_NilIsAPayload ==
    [][(last'.op \in {"AddVertex", "AddVertexByID"} /\ last'.res = <<NilPayload>>)
       => \/ last'.err = "nil" /\ d'.vertexValues[last'.id] = NilPayload
          \/ last'.err \in {"VertexDuplicateError", "IDDuplicateError"} /\ d' = d]_vars

(***************************************************************************)
(* C30.  Readers that concurrently call GetDescendants and GetAncestors    *)
(* on a graph with empty caches all eventually return: builders holding a  *)
(* key's build lock while recursing never wait on each other in a cycle.   *)
(***************************************************************************)
C30_ReadersReturn == Building ~> (last.op = "Readers" /\ last.err = "nil")

\* what does hold: readers that all build in the same direction return
C30_SameDirection ==
    (Building /\ \A s \in Readers, t \in Readers : last.res.calls[s][2] = last.res.calls[t][2])
    ~> (last.op = "Readers" /\ last.err = "nil")

\* two builders, each holding the key the other waits for
C30_Deadlock ==
    /\ Building
    /\ \E s \in Readers, t \in Readers :
          /\ s # t
          /\ last.res.stack[s] # <<>> /\ last.res.stack[t] # <<>>
          /\ LET fs == last.res.stack[s][Len(last.res.stack[s])]
                 ft == last.res.stack[t][Len(last.res.stack[t])]
             IN  /\ fs.pc = "lock" /\ last.res.verticesLocked[fs.key] = t
                 /\ ft.pc = "lock" /\ last.res.verticesLocked[ft.key] = s

(***************************************************************************)
(* C33.  Immediately after a successful AddEdge(src, dst) or               *)
(* DeleteEdge(src, dst) the ancestors cache holds no entry for dst or for  *)
(* any key that was a descendant of dst before the change, and the         *)
(* descendants cache holds no entry for src or for any key that was an     *)
(* ancestor of src before the change.                                      *)
(***************************************************************************)
\* the edges by which two graphs differ: the one edge an accepted AddEdge
\* added or an accepted DeleteEdge removed
ChangedEdges(g, h) == (OutRel(h) \ OutRel(g)) \cup (OutRel(g) \ OutRel(h))

C33_EdgeInvalidates ==
    [][(last'.op \in {"AddEdge", "DeleteEdge"} /\ last'.err = "nil") =>
          \A e \in ChangedEdges(d, d') :
              /\ (DOMAIN d'.ancestorsCache) \cap ({e[2]} \cup DescendantsOf(d, e[2])) = {}
              /\ (DOMAIN d'.descendantsCache) \cap ({e[1]} \cup AncestorsOf(d, e[1])) = {}]_vars

\* an edge of a connected graph of three vertices was deleted, and the entry
\* of the third vertex survives in one of the caches
C33_Witness ==
    /\ last.op = "DeleteEdge" /\ last.err = "nil"
    /\ Cardinality(OutRel(d)) >= 1
    /\ d.ancestorsCache # EmptyMap \/ d.descendantsCache # EmptyMap

(***************************************************************************)
(* C38.  In every reachable state a descendants cache entry for a key k    *)
(* comes with an entry for every child of k, and an ancestors entry for k  *)
(* with one for every parent of k; hence once ReduceTransitively has       *)
(* filled the descendants cache from all roots, the entry of every child   *)
(* whose cached set it reads is present, and no absent entry is read as    *)
(* the empty set.                                                          *)
(***************************************************************************)
\* the entries of a cache are closed under the edges it follows
CacheClosed(edges, cache) ==
    \A k \in DOMAIN cache : MapGet(edges, k) \subseteq DOMAIN cache

\* the keys whose entry ReduceTransitively reads: the children of the vertices
ReduceReads(g) == UNION {MapGet(g.outboundEdge, v) : v \in DOMAIN g.vertices}

C38_CacheClosed ==
    /\ CacheClosed(d.outboundEdge, d.descendantsCache)
    /\ CacheClosed(d.inboundEdge, d.ancestorsCache)
    /\ ReduceReads(d) \subseteq
          DOMAIN fillRec(d.outboundEdge, d.descendantsCache, getRoots(d))

\* a mutation left a cache that is filled in part: a root keeps its entry, a
\* key with a child has lost its own, and an ancestors entry has a parent
C38_Witness ==
    /\ last.op \in MutationOps
    /\ \E k \in DOMAIN d.descendantsCache : MapGet(d.outboundEdge, k) # {}
    /\ \E k \in DOMAIN d.ancestorsCache : MapGet(d.inboundEdge, k) # {}
    /\ \E k \in (DOMAIN d.vertices) \ DOMAIN d.descendantsCache :
          MapGet(d.outboundEdge, k) # {}

(***************************************************************************)
(* C34.  In every reachable state, also after Options was called on a      *)
(* graph that holds vertices, the key index maps the key of the payload    *)
(* under the policy in effect to the id, for every live vertex; the policy *)
(* in effect does not change once a vertex has been inserted.              *)
(***************************************************************************)
KeyIndexed(g) ==
    \A id \in DOMAIN g.vertexValues :
        /\ hashVertex(g, g.vertexValues[id]) \in DOMAIN g.vertices
        /\ g.vertices[hashVertex(g, g.vertexValues[id])] = id

C34_KeyIndexUnderPolicy == KeyIndexed(d)

\* the second form of the statement: no step changes the policy of a graph
\* that holds a vertex
C34_PolicyFixed ==
    [][d.vertexValues # EmptyMap => d'.options = d.options]_vars

\* Options was called on a graph that holds vertices and has changed the key
\* of one of them
C34_Rekeyed ==
    /\ last.op = "Options"
    /\ \E id \in DOMAIN d.vertexValues :
          hashVertex(d, d.vertexValues[id]) \notin DOMAIN d.vertices

(***************************************************************************)
(* C32.  For any key k at most one thread at a time executes the build of  *)
(* k's cache entry, the section between the miss of the second check and   *)
(* the publication; and a thread that obtains k's build lock after another *)
(* thread has published the entry returns the published set and does not   *)
(* build it again.                                                         *)
(***************************************************************************)
\* the frames of reader t that are inside the build section
BuildFrames(t) ==
    {i \in 1..Len(last.res.stack[t]) : last.res.stack[t][i].pc = "loop"}

\* the readers that are building the entry of key k
BuildersOf(k) ==
    {t \in Readers : \E i \in BuildFrames(t) : last.res.stack[t][i].key = k}

\* reader t holds the lock of the key of its top frame and is about to
\* check the cache for the second time
AtRecheck(t) ==
    /\ last.res.stack[t] # <<>>
    /\ last.res.stack[t][Len(last.res.stack[t])].pc = "recheck"

C32_OneBuilder ==
    Building =>
        /\ \A k \in DOMAIN d.vertices : Cardinality(BuildersOf(k)) <= 1
        /\ \A t \in Readers : \A i \in BuildFrames(t) :
              last.res.stack[t][i].key \notin
                  DOMAIN CacheOf(d, last.res.stack[t][i].asc)

\* a reader has obtained the lock of a key whose entry another reader
\* published while it waited
C32_Witness ==
    /\ Building
    /\ \E t \in Readers :
          /\ AtRecheck(t)
          /\ LET f == last.res.stack[t][Len(last.res.stack[t])]
             IN  f.key \in DOMAIN CacheOf(d, f.asc)

(***************************************************************************)
(* C31.  A GetDescendants(id) or GetAncestors(id) call that runs           *)
(* concurrently with AddEdge, DeleteEdge or DeleteVertex returns the       *)
(* reachability set of the graph before that mutation or of the graph      *)
(* after it, never a mix of the two; and while it reads it never sees the  *)
(* updated adjacency together with a cache entry that the mutation was     *)
(* due to invalidate.                                                      *)
(***************************************************************************)
\* what the query returns on graph g, by the closure of g's edges
ExpectedRead(g, id, asc) ==
    IF id = "" THEN [err |-> "IDEmptyError", res |-> EmptyMap]
    ELSE IF id \notin DOMAIN g.vertexValues THEN [err |-> "IDUnknownError", res |-> EmptyMap]
    ELSE LET keys == IF asc THEN AncestorsOf(g, KeyOf(g, id)) ELSE DescendantsOf(g, KeyOf(g, id))
         IN  [err |-> "nil", res |-> [x \in {g.vertices[k] : k \in keys} |-> g.vertexValues[x]]]

\* every cache entry of g agrees with the edges g holds
CacheAgrees(g) ==
    /\ \A k \in DOMAIN g.descendantsCache : g.descendantsCache[k] = DescendantsOf(g, k)
    /\ \A k \in DOMAIN g.ancestorsCache : g.ancestorsCache[k] = AncestorsOf(g, k)

\* the reader holds the read lock
ReaderIn == last.res.rpc \in {"sane", "build", "runlock"}

C31_ReadIsAtomic ==
    Concurrent =>
        /\ ReaderIn => CacheAgrees(d)
        /\ last.res.rpc = "done" =>
              last.res.out \in
                  {ExpectedRead(last.res.before, last.id, last.res.asc),
                   ExpectedRead(applyMutation(last.res.before, last.res.m).g,
                                last.id, last.res.asc)}

\* both calls have returned, the reader with the set of the graph after the
\* mutation, which is not the set of the graph before it, although the cache
\* held an entry for its key when the calls were made
C31_Witness ==
    /\ Concurrent /\ last.err = "nil"
    /\ last.res.out = ExpectedRead(d, last.id, last.res.asc)
    /\ last.res.out # ExpectedRead(last.res.before, last.id, last.res.asc)
    /\ last.res.out.err = "nil"
    /\ KeyOf(last.res.before, last.id) \in DOMAIN CacheOf(last.res.before, last.res.asc)

(***************************************************************************)
(* C36.  GetDescendantsGraph(id) or GetAncestorsGraph(id) running          *)
(* concurrently with DeleteVertex(id) returns IDUnknownError, or a graph   *)
(* that holds the seed under its original id and is the subgraph of the    *)
(* source graph at one instant; it never returns a graph without the seed  *)
(* or with a vertex of empty id, every read of the vertex store being made *)
(* under the graph lock.                                                   *)
(***************************************************************************)
\* the query has returned
SeedDone == last.op = "getRelativesGraph" /\ last.res.pc = "done"

\* the graph once DeleteVertex(victim) has run
AfterDelete == deleteVertex(last.res.before, last.res.victim).g

C36_SeedInSubgraph ==
    (SeedDone /\ last.id # "") =>
        \/ last.res.out.err = "IDUnknownError"
        \/ /\ last.res.out.err = "nil"
           /\ last.res.out.id = last.id
           /\ last.id \in DOMAIN last.res.out.g.vertexValues
           /\ "" \notin DOMAIN last.res.out.g.vertexValues
           /\ \E g \in {last.res.before, AfterDelete} :
                 /\ last.id \in DOMAIN g.vertexValues
                 /\ InducedOn(last.res.out.g, g, ConeIds(g, last.id, last.res.asc))

\* the same statement for the calls whose read of the seed and whose
\* recursion see the same graph
C36_WhenReadUnderLock ==
    (SeedDone /\ last.id # "" /\ last.res.vHash \in DOMAIN d.vertices) =>
        \/ last.res.out.err = "IDUnknownError"
        \/ /\ last.res.out.err = "nil"
           /\ last.res.out.id = last.id
           /\ \E g \in {last.res.before, AfterDelete} :
                 /\ last.id \in DOMAIN g.vertexValues
                 /\ InducedOn(last.res.out.g, g, ConeIds(g, last.id, last.res.asc))

\* the query returned without error a graph whose only vertex has the empty
\* id: the seed was deleted between the read of its payload and the lock
C36_SeedLost ==
    /\ SeedDone /\ last.id # ""
    /\ last.res.out.err = "nil"
    /\ last.res.out.id = ""
    /\ DOMAIN last.res.out.g.vertexValues = {""}

(***************************************************************************)
(* C37.  The ids emitted on the stream of a successful DescendantsWalker   *)
(* (AncestorsWalker) call for id are exactly the descendants (ancestors)   *)
(* of the vertex named id in one single graph state in which id is live,   *)
(* also when a mutation such as DeleteVertex(id) runs between the return   *)
(* of the call and the start of the emission; the stream never holds the   *)
(* relatives of another vertex.                                            *)
(***************************************************************************)
\* the consumer has read the stream to its end
StreamEnded == Walking /\ last.res.cpc = "ended"

\* seq lists, each once, the relatives of id in g, where id is live
StreamOf(g, id, asc, seq) ==
    /\ id \in DOMAIN g.vertexValues
    /\ {seq[i] : i \in 1..Len(seq)} =
          {g.vertices[k] : k \in IF asc THEN AncestorsOf(g, KeyOf(g, id))
                                 ELSE DescendantsOf(g, KeyOf(g, id))}
    /\ \A i \in 1..Len(seq), j \in 1..Len(seq) : seq[i] = seq[j] => i = j

C37_StreamOfOneState ==
    StreamEnded =>
        \E g \in {last.res.before, d} :
            StreamOf(g, last.id, last.op = "AncestorsWalker", last.res.got)

\* the same statement for the streams whose vertex is live when the
\* goroutine has the read lock
C37_WhenSeedLive ==
    (StreamEnded /\ last.id \in DOMAIN d.vertexValues) =>
        \E g \in {last.res.before, d} :
            StreamOf(g, last.id, last.op = "AncestorsWalker", last.res.got)

\* the stream ended empty although the vertex had relatives as long as it
\* was live
C37_EmptyStream ==
    /\ StreamEnded
    /\ last.res.got = <<>>
    /\ last.id \notin DOMAIN d.vertexValues
    /\ ~StreamOf(last.res.before, last.id, last.op = "AncestorsWalker", <<>>)

(***************************************************************************)
(* C35.  GetOrderedDescendants, GetOrderedAncestors and the ordered walk   *)
(* always eventually return, also when a mutation asks for the graph write *)
(* lock while they run and a waiting writer keeps new readers out: none of *)
(* them acquires the graph read lock a second time, itself or through the  *)
(* walker it waits for, while it holds one.                                *)
(***************************************************************************)
OrderedRunning == Walking /\ last.res.cpc # "returned"

C35_OrderedReturns == OrderedRunning ~> (Walking /\ last.res.cpc = "returned")

\* no read lock is asked for while one is held
C35_NoSecondRLock ==
    Walking => ~(last.res.readers > 0 /\ (last.res.cpc = "inner" \/ last.res.pc = "rlock"))

\* the query holds its read lock, the mutation waits for it, and the
\* goroutine the query waits for waits for the mutation
C35_Blocked ==
    /\ Walking /\ last.res.cpc = "receiving" /\ last.res.pc = "rlock"
    /\ last.res.readers = 1 /\ last.res.mpc = "waiting"

(***************************************************************************)
(* C39.  DescendantsFlow terminates and returns for every start vertex of  *)
(* a finite graph, provided every callback returns, also when a vertex of  *)
(* the cone has parents outside the cone: such a vertex waits for its      *)
(* in-cone parents only, and its callback is still invoked exactly once.   *)
(***************************************************************************)
\* the vertices of the cone of id that have a parent outside the cone
OutsideParented(g, id) ==
    {v \in FlowConeIds(g, id) \ {id} : dagGetParents(g, v) \ FlowConeIds(g, id) # {}}

\* no callback is started a second time
FlowCalledOnce ==
    Flowing => \A v \in last.res.cone :
                  /\ last.res.st[v] = "running" => last'.res.st[v] \in {"running", "returned"}
                  /\ last.res.st[v] = "returned" => last'.res.st[v] = "returned"

C39_FlowTerminates ==
    /\ Flowing ~> FlowReturned
    /\ [](FlowReturned => \A v \in FlowConeIds(d, last.id) : last.res.st[v] = "returned")
    /\ [][FlowCalledOnce]_vars

\* a flow returned whose cone holds a vertex with a parent outside the cone
\* and another parent inside it
C39_Witness ==
    /\ FlowReturned
    /\ \E v \in OutsideParented(d, last.id) : InConeParents(d, last.id, v) # {}
    /\ Cardinality(FlowConeIds(d, last.id)) >= 3

(***************************************************************************)
(* C40: the walks of the generic graph and of the untyped graph            *)
(***************************************************************************)
\* a walk of the generic graph has returned; last.res is its visit sequence
GenericWalked == last.op \in {"GenericDFSWalk", "GenericBFSWalk", "GenericOrderedWalk"}

\* what the untyped walk of the same kind visits on the same ids and edges
UntypedWalkOf(g, op) ==
    IF op = "GenericDFSWalk" THEN DFSWalkOf(g)
    ELSE IF op = "GenericBFSWalk" THEN BFSWalkOf(g)
    ELSE OrderedWalkOf(g)

\* C40: every walk of the generic graph visits the vertices in the order of
\* the untyped walk of the same kind on the same ids and edges, roots and
\* children in ascending id order, so that two runs give the same sequence
C40_GenericAsUntyped == GenericWalked => last.res = UntypedWalkOf(d, last.op)

\* what does hold: the order of the untyped walk is one of the orders the
\* generic walk can take, and every run visits each vertex exactly once
C40_UntypedAmongGeneric ==
    /\ DFSWalkOf(d) \in GenericDFSWalkOf(d)
    /\ BFSWalkOf(d) \in GenericBFSWalkOf(d)
    /\ OrderedWalkOf(d) \in GenericOrderedWalkOf(d)
    /\ GenericWalked =>
          /\ {last.res[i] : i \in DOMAIN last.res} = DOMAIN d.vertexValues
          /\ Len(last.res) = Cardinality(DOMAIN d.vertexValues)

\* a run of a generic walk on a graph with two roots that begins with the
\* greater root
C40_OtherOrder ==
    /\ GenericWalked
    /\ Cardinality(getRootIDs(d)) >= 2
    /\ last.res # UntypedWalkOf(d, last.op)

====
